---- MODULE Spec2Model ----
(***************************************************************************)
(* Model of the payload validator (validate_payload.py) and of the         *)
(* booking API helpers (app.py).                                           *)
(*                                                                         *)
(* A Python str is a sequence of lexemes.  A lexeme is a 4-tuple           *)
(* <<kind, a, b, c>>: a whitespace character <<"sp",0,0,0>>, a letter      *)
(* <<"ch",code,0,0>>, or a date / time token the date parser reads as a    *)
(* unit.  A Python value is a record [type, s, n]: s is the text of a str, *)
(* n the number of a bool/int or the length of a collection.  A dict is    *)
(* the sequence of its items [k, v] in insertion order.                    *)
(***************************************************************************)
EXTENDS Integers, Sequences, FiniteSets, TLC

VARIABLES pc, op, payload, required_fields, allow_empty, include_defaults,
          override, require_from, today, result, renormalized,
          book, posted, clients, file, heap, handlers

vars == <<pc, op, payload, required_fields, allow_empty, include_defaults,
          override, require_from, today, result, renormalized,
          book, posted, clients, file, heap, handlers>>

(* the arguments of the call in progress, and the date of the clock *)
args == <<op, payload, required_fields, allow_empty, include_defaults,
          override, require_from, today, file>>

(* the state of the /book request handlers, their outbound clients and the *)
(* requests the webhook has received                                       *)
bookvars == <<book, posted, clients>>

(* the objects the interpreter holds (the module-level default list and    *)
(* the lists and dicts the running calls allocated) and the calls in       *)
(* progress in the concurrent request handlers                             *)
sharedvars == <<heap, handlers>>

----------------------------------------------------------------------------
(* Bounds of the explored inputs *)
MaxPayload == 2
MaxRequired == 2
MaxOverride == 3
MaxFromFile == 2
MaxRequests == 2
MaxHandlers == 2

----------------------------------------------------------------------------
(* Python values *)
SP == <<"sp", 0, 0, 0>>
NL == <<"nl", 0, 0, 0>>
Whitespace == {SP, NL}
Ch(code) == <<"ch", code, 0, 0>>

PyNone == [type |-> "none", s |-> <<>>, n |-> 0]
PyStr(text) == [type |-> "str", s |-> text, n |-> 0]
PyInt(i) == [type |-> "int", s |-> <<>>, n |-> i]
PyBool(b) == [type |-> "bool", s |-> <<>>, n |-> IF b THEN 1 ELSE 0]
PyList(len) == [type |-> "list", s |-> <<>>, n |-> len]
PyTuple(len) == [type |-> "tuple", s |-> <<>>, n |-> len]
PySet(len) == [type |-> "set", s |-> <<>>, n |-> len]
PyDict(len) == [type |-> "dict", s |-> <<>>, n |-> len]

(* str.strip(): drop leading and trailing whitespace *)
RECURSIVE LStrip(_)
LStrip(text) ==
    IF text = <<>> THEN <<>>
    ELSE IF Head(text) \in Whitespace THEN LStrip(Tail(text))
    ELSE text

RECURSIVE RStrip(_)
RStrip(text) ==
    IF text = <<>> THEN <<>>
    ELSE IF text[Len(text)] \in Whitespace
    THEN RStrip(SubSeq(text, 1, Len(text) - 1))
    ELSE text

Strip(text) == RStrip(LStrip(text))

(* dict helpers: membership, lookup, key set *)
Keys(d) == {d[i].k : i \in DOMAIN d}
HasKey(d, key) == key \in Keys(d)
Item(d, key) == d[CHOOSE i \in DOMAIN d : d[i].k = key].v
DictGet(d, key) == IF HasKey(d, key) THEN Item(d, key) ELSE PyNone

SeqToSet(q) == {q[i] : i \in DOMAIN q}

(* no field list file is read *)
NoFile == [kind |-> "none", text |-> <<>>, form |-> "none", entries |-> <<>>]

(* an optional list argument: None, or a list *)
None == [some |-> FALSE, items |-> <<>>]
Some(items) == [some |-> TRUE, items |-> items]

----------------------------------------------------------------------------
(* validate_payload.py *)

DEFAULT_REQUIRED_FIELDS ==
    <<"Service", "Phone", "Stylist", "Date", "Use_name", "Time", "action">>

(* Code points of the field names, for Python's str ordering *)
Codes ==
    [n \in {"Service", "Phone", "Stylist", "Date", "Use_name", "Time",
            "action", "User_Name", "Custom", "Weekday", "ISODateTime"} |->
        CASE n = "Service"     -> <<83, 101, 114, 118, 105, 99, 101>>
          [] n = "Phone"       -> <<80, 104, 111, 110, 101>>
          [] n = "Stylist"     -> <<83, 116, 121, 108, 105, 115, 116>>
          [] n = "Date"        -> <<68, 97, 116, 101>>
          [] n = "Use_name"    -> <<85, 115, 101, 95, 110, 97, 109, 101>>
          [] n = "Time"        -> <<84, 105, 109, 101>>
          [] n = "action"      -> <<97, 99, 116, 105, 111, 110>>
          [] n = "User_Name"   -> <<85, 115, 101, 114, 95, 78, 97, 109, 101>>
          [] n = "Custom"      -> <<67, 117, 115, 116, 111, 109>>
          [] n = "Weekday"     -> <<87, 101, 101, 107, 100, 97, 121>>
          [] n = "ISODateTime" -> <<73, 83, 79, 68, 97, 116, 101, 84, 105,
                                    109, 101>>]

(* a < b for two str: lexicographic on code points, a proper prefix first *)
RECURSIVE CodesLess(_, _)
CodesLess(a, b) ==
    IF b = <<>> THEN FALSE
    ELSE IF a = <<>> THEN TRUE
    ELSE IF Head(a) # Head(b) THEN Head(a) < Head(b)
    ELSE CodesLess(Tail(a), Tail(b))

StrLess(a, b) == CodesLess(Codes[a], Codes[b])

(* sorted(S) for a set of str *)
RECURSIVE Sorted(_)
Sorted(S) ==
    IF S = {} THEN <<>>
    ELSE LET least == CHOOSE x \in S : \A y \in S \ {x} : StrLess(x, y)
         IN  <<least>> \o Sorted(S \ {least})

(* mutant: emptiness taken as Python falsiness, without strip() *)
is_emptyFalsy(value) ==
    IF value.type = "none" THEN TRUE
    ELSE IF value.type = "str" THEN value.s = <<>>
    ELSE value.n = 0

is_empty(value) ==
    IF value.type = "none" THEN TRUE
    ELSE IF value.type = "str" THEN Strip(value.s) = <<>>
    ELSE IF value.type \in {"list", "tuple", "set", "dict"} THEN value.n = 0
    ELSE FALSE

(* mutant: a missing field falls through to the emptiness check *)
RECURSIVE ValidateLoopNoContinue(_, _, _, _, _, _)
ValidateLoopNoContinue(p, required, allow, i, missing, empty) ==
    IF i > Len(required) THEN [missing |-> missing, empty |-> empty]
    ELSE LET field == required[i]
             missing2 == IF HasKey(p, field) THEN missing
                         ELSE Append(missing, field)
             empty2 == IF ~allow /\ is_empty(DictGet(p, field))
                       THEN Append(empty, field) ELSE empty
         IN  ValidateLoopNoContinue(p, required, allow, i + 1,
                                    missing2, empty2)

(* mutant: allow_empty is tested before the presence of the field *)
RECURSIVE ValidateLoopAllowFirst(_, _, _, _, _, _)
ValidateLoopAllowFirst(p, required, allow, i, missing, empty) ==
    IF i > Len(required) THEN [missing |-> missing, empty |-> empty]
    ELSE LET field == required[i] IN
         IF allow
         THEN ValidateLoopAllowFirst(p, required, allow, i + 1,
                                     missing, empty)
         ELSE IF ~HasKey(p, field)
         THEN ValidateLoopAllowFirst(p, required, allow, i + 1,
                                     Append(missing, field), empty)
         ELSE IF is_empty(Item(p, field))
         THEN ValidateLoopAllowFirst(p, required, allow, i + 1, missing,
                                     Append(empty, field))
         ELSE ValidateLoopAllowFirst(p, required, allow, i + 1,
                                     missing, empty)

(* the for loop of validate_payload, from index i on *)
RECURSIVE ValidateLoop(_, _, _, _, _, _)
ValidateLoop(p, required, allow, i, missing, empty) ==
    IF i > Len(required) THEN [missing |-> missing, empty |-> empty]
    ELSE LET field == required[i] IN
         IF ~HasKey(p, field)
         THEN ValidateLoop(p, required, allow, i + 1,
                           Append(missing, field), empty)
         ELSE IF allow
         THEN ValidateLoop(p, required, allow, i + 1, missing, empty)
         ELSE IF is_empty(Item(p, field))
         THEN ValidateLoop(p, required, allow, i + 1, missing,
                           Append(empty, field))
         ELSE ValidateLoop(p, required, allow, i + 1, missing, empty)

(* mutant: extras keep the insertion order of the payload *)
validate_payloadUnsorted(p, required, allow) ==
    LET lists == ValidateLoop(p, required, allow, 1, <<>>, <<>>)
        keyseq == [i \in DOMAIN p |-> p[i].k]
    IN  [missing |-> lists.missing,
         empty   |-> lists.empty,
         extras  |-> SelectSeq(keyseq,
                               LAMBDA k : k \notin SeqToSet(required))]

validate_payload(p, required, allow) ==
    LET lists == ValidateLoop(p, required, allow, 1, <<>>, <<>>)
    IN  [missing |-> lists.missing,
         empty   |-> lists.empty,
         extras  |-> Sorted(Keys(p) \ SeqToSet(required))]

(* the de-duplication loop of load_required_fields *)
RECURSIVE LoadOrdered(_, _, _)
LoadOrdered(fields, seen, ordered_fields) ==
    IF fields = <<>> THEN ordered_fields
    ELSE IF Head(fields) \in seen
    THEN LoadOrdered(Tail(fields), seen, ordered_fields)
    ELSE LoadOrdered(Tail(fields), seen \cup {Head(fields)},
                     Append(ordered_fields, Head(fields)))

(* load_required_fields(args): from_file is parse_fields_file's list for   *)
(* args.require_from, required is args.required                            *)
load_required_fields(incl, from_file, required) ==
    LET f1 == IF incl THEN DEFAULT_REQUIRED_FIELDS ELSE <<>>
        f2 == IF from_file.some THEN f1 \o from_file.items ELSE f1
        f3 == IF required.some /\ required.items # <<>>
              THEN f2 \o required.items ELSE f2
        f4 == IF f3 = <<>> THEN DEFAULT_REQUIRED_FIELDS ELSE f3
    IN  LoadOrdered(f4, {}, <<>>)

----------------------------------------------------------------------------
(* app.py: required-field construction and the /validate endpoint *)

(* mutant: the seen test is dropped, every name is appended *)
RECURSIVE BuildOrderedKeepAll(_, _, _)
BuildOrderedKeepAll(fields, seen, ordered) ==
    IF fields = <<>> THEN ordered
    ELSE BuildOrderedKeepAll(Tail(fields), seen \cup {Head(fields)},
                             Append(ordered, Head(fields)))

(* the de-duplication loop of _build_required_fields *)
RECURSIVE BuildOrdered(_, _, _)
BuildOrdered(fields, seen, ordered) ==
    IF fields = <<>> THEN ordered
    ELSE IF Head(fields) \in seen
    THEN BuildOrdered(Tail(fields), seen, ordered)
    ELSE BuildOrdered(Tail(fields), seen \cup {Head(fields)},
                      Append(ordered, Head(fields)))

(* mutant: no fallback to the default list *)
_build_required_fieldsNoFallback(required, incl) ==
    LET f1 == IF incl THEN DEFAULT_REQUIRED_FIELDS ELSE <<>>
        f2 == IF required.some /\ required.items # <<>>
              THEN f1 \o required.items ELSE f1
    IN  BuildOrdered(f2, {}, <<>>)

_build_required_fields(required, incl) ==
    LET f1 == IF incl THEN DEFAULT_REQUIRED_FIELDS ELSE <<>>
        f2 == IF required.some /\ required.items # <<>>
              THEN f1 \o required.items ELSE f1
        ordered == BuildOrdered(f2, {}, <<>>)
    IN  IF ordered = <<>> THEN DEFAULT_REQUIRED_FIELDS ELSE ordered

(* POST /validate *)
validate(p, required, incl, allow) ==
    LET req == _build_required_fields(required, incl) IN
    IF req = <<>>
    THEN [kind |-> "http", status |-> 400,
          detail |-> "No required fields specified."]
    ELSE LET r == validate_payload(p, req, allow)
         IN  [kind |-> "http", status |-> 200,
              valid |-> (r.missing = <<>> /\ r.empty = <<>>),
              missing |-> r.missing, empty |-> r.empty, extras |-> r.extras]

----------------------------------------------------------------------------
(* app.py: date/time parsing and conversion to Europe/Stockholm *)

(* lexemes of date/time text: "YYYY-MM-DD", "HH:MM[:SS]", "+HH:MM" (as     *)
(* minutes east of UTC in the second slot), the "T" of isoformat(), and a  *)
(* weekday name                                                            *)
DateLex(y, m, d) == <<"date", y, m, d>>
TimeLex(h, mi, sec) == <<"time", h, mi, sec>>
OffLex(minutes) == <<"off", minutes, 0, 0>>
TLex == <<"T", 0, 0, 0>>
NameLex(name) == <<name, 0, 0, 0>>

IsLeap(y) == (y % 4 = 0 /\ y % 100 # 0) \/ y % 400 = 0

DaysInMonth(y, m) ==
    IF m = 2 THEN (IF IsLeap(y) THEN 29 ELSE 28)
    ELSE IF m \in {4, 6, 9, 11} THEN 30 ELSE 31

(* days since 1970-01-01 of a proleptic Gregorian date *)
DaysFromCivil(y, m, d) ==
    LET yy  == IF m <= 2 THEN y - 1 ELSE y
        era == yy \div 400
        yoe == yy - era * 400
        mp  == IF m > 2 THEN m - 3 ELSE m + 9
        doy == (153 * mp + 2) \div 5 + d - 1
        doe == yoe * 365 + yoe \div 4 - yoe \div 100 + doy
    IN  era * 146097 + doe - 719468

CivilFromDays(days) ==
    LET z   == days + 719468
        era == z \div 146097
        doe == z - era * 146097
        yoe == (doe - doe \div 1460 + doe \div 36524 - doe \div 146096)
                 \div 365
        doy == doe - (365 * yoe + yoe \div 4 - yoe \div 100)
        mp  == (5 * doy + 2) \div 153
        d   == doy - (153 * mp + 2) \div 5 + 1
        m   == IF mp < 10 THEN mp + 3 ELSE mp - 9
        y   == yoe + era * 400 + (IF m <= 2 THEN 1 ELSE 0)
    IN  <<y, m, d>>

(* 0 = Monday ... 6 = Sunday, as datetime.weekday() *)
WeekdayOfDays(days) == (days + 3) % 7

DayNames ==
    <<"Monday", "Tuesday", "Wednesday", "Thursday", "Friday", "Saturday",
      "Sunday">>

(* Europe/Stockholm: +02:00 from the last Sunday of March 01:00 UTC to the *)
(* last Sunday of October 01:00 UTC, +01:00 otherwise; utc in minutes      *)
LastSunday(y, m) ==
    LET last == DaysFromCivil(y, m, 31)
    IN  last - ((WeekdayOfDays(last) + 1) % 7)

StockholmOffset(utc) ==
    LET y     == CivilFromDays(utc \div 1440)[1]
        start == LastSunday(y, 3) * 1440 + 60
        end   == LastSunday(y, 10) * 1440 + 60
    IN  IF utc >= start /\ utc < end THEN 120 ELSE 60

(* an aware datetime: the UTC instant (minutes), the seconds, the offset   *)
(* of its zone and the zone's key                                          *)
AwareDt(utc, sec, off, zone) ==
    [utc |-> utc, sec |-> sec, off |-> off, zone |-> zone]

astimezoneStockholm(dt) ==
    AwareDt(dt.utc, dt.sec, StockholmOffset(dt.utc), "Europe/Stockholm")

(* the wall-clock fields of an aware datetime *)
LocalMinutes(dt) == dt.utc + dt.off
LocalDate(dt) == CivilFromDays(LocalMinutes(dt) \div 1440)
LocalHour(dt) == (LocalMinutes(dt) % 1440) \div 60
LocalMinute(dt) == LocalMinutes(dt) % 60

(* strftime / isoformat *)
StrfDate(dt) ==
    <<DateLex(LocalDate(dt)[1], LocalDate(dt)[2], LocalDate(dt)[3])>>
StrfTime(dt) == <<TimeLex(LocalHour(dt), LocalMinute(dt), 0)>>
(* mutant: the weekday is taken from the UTC day of the instant *)
StrfWeekdayUtc(dt) ==
    <<NameLex(DayNames[WeekdayOfDays(dt.utc \div 1440) + 1])>>

StrfWeekday(dt) ==
    <<NameLex(DayNames[WeekdayOfDays(LocalMinutes(dt) \div 1440) + 1])>>
IsoFormat(dt) ==
    <<DateLex(LocalDate(dt)[1], LocalDate(dt)[2], LocalDate(dt)[3]), TLex,
      TimeLex(LocalHour(dt), LocalMinute(dt), dt.sec), OffLex(dt.off)>>

(* dateutil's parse(combined, fuzzy=True) on text holding at most one date *)
(* lexeme, one time lexeme and one offset lexeme; letters and whitespace   *)
(* are skipped.  A missing date defaults to today, a missing time to       *)
(* 00:00.  Fails when no date or time is found or a field is out of range. *)
Lexemes(text, kind) == {i \in DOMAIN text : text[i][1] = kind}
FirstLex(text, kind) ==
    text[CHOOSE i \in Lexemes(text, kind) :
            \A j \in Lexemes(text, kind) : i <= j]

ParseFailed == [ok |-> FALSE, y |-> 0, m |-> 0, d |-> 0, h |-> 0, mi |-> 0,
                sec |-> 0, aware |-> FALSE, off |-> 0]

date_parser_parse(text, clock) ==
    LET hasDate == Lexemes(text, "date") # {}
        hasTime == Lexemes(text, "time") # {}
        hasOff  == hasTime /\ Lexemes(text, "off") # {}
        dl == IF hasDate THEN FirstLex(text, "date")
              ELSE DateLex(clock[1], clock[2], clock[3])
        tl == IF hasTime THEN FirstLex(text, "time") ELSE TimeLex(0, 0, 0)
    IN  IF ~hasDate /\ ~hasTime THEN ParseFailed
        ELSE IF ~(dl[3] \in 1..12) THEN ParseFailed
        ELSE IF ~(dl[4] \in 1..DaysInMonth(dl[2], dl[3])) THEN ParseFailed
        ELSE IF ~(tl[2] \in 0..23 /\ tl[3] \in 0..59 /\ tl[4] \in 0..59)
        THEN ParseFailed
        ELSE [ok |-> TRUE, y |-> dl[2], m |-> dl[3], d |-> dl[4],
              h |-> tl[2], mi |-> tl[3], sec |-> tl[4],
              aware |-> hasOff,
              off |-> IF hasOff THEN FirstLex(text, "off")[2] ELSE 0]

Raise(exc, msg, arg) ==
    [kind |-> "raise", exc |-> exc, msg |-> msg, arg |-> arg]

IdentityMsg == "'Use_name' or 'User_Name' must be provided and non-empty."
DateTimeRequiredMsg ==
    "Date and Time must be provided to schedule an appointment."
ParseMsg == "Could not understand date/time input: "

(* mutant: a naive result is taken as Stockholm wall-clock time *)
_parse_to_stockholmNaiveLocal(date_str, time_str, clock) ==
    LET combined == Strip(date_str \o <<SP>> \o time_str)
        parsed   == date_parser_parse(combined, clock)
    IN  IF Strip(combined) = <<>>
        THEN Raise("ValueError", DateTimeRequiredMsg, <<>>)
        ELSE IF ~parsed.ok
        THEN Raise("ValueError", ParseMsg, combined)
        ELSE LET wall == DaysFromCivil(parsed.y, parsed.m, parsed.d) * 1440
                           + parsed.h * 60 + parsed.mi
                 local == StockholmOffset(wall - 60)
                 aware == IF parsed.aware
                          THEN AwareDt(wall - parsed.off, parsed.sec,
                                       parsed.off, "offset")
                          ELSE AwareDt(wall - local, parsed.sec, local,
                                       "Europe/Stockholm")
             IN  [kind |-> "datetime", dt |-> astimezoneStockholm(aware)]

_parse_to_stockholm(date_str, time_str, clock) ==
    LET combined == Strip(date_str \o <<SP>> \o time_str)
        parsed   == date_parser_parse(combined, clock)
    IN  IF Strip(combined) = <<>>
        THEN Raise("ValueError", DateTimeRequiredMsg, <<>>)
        ELSE IF ~parsed.ok
        THEN Raise("ValueError", ParseMsg, combined)
        ELSE LET wall == DaysFromCivil(parsed.y, parsed.m, parsed.d) * 1440
                           + parsed.h * 60 + parsed.mi
                 (* a naive result is taken as UTC (ASSUMED_SOURCE_TZ) *)
                 aware == IF parsed.aware
                          THEN AwareDt(wall - parsed.off, parsed.sec,
                                       parsed.off, "offset")
                          ELSE AwareDt(wall, parsed.sec, 0, "UTC")
             IN  [kind |-> "datetime", dt |-> astimezoneStockholm(aware)]

(* mutant: the name is only tested against None *)
TruthyNotNone(value) == value.type # "none"

(* truth value of a Python value, and  a or b *)
Truthy(value) ==
    IF value.type = "none" THEN FALSE
    ELSE IF value.type = "str" THEN value.s # <<>>
    ELSE value.n # 0

PyOr(a, b) == IF Truthy(a) THEN a ELSE b

(* d[key] = value: replaces in place, or appends a new item *)
DictSet(d, key, value) ==
    IF HasKey(d, key)
    THEN [i \in DOMAIN d |-> IF d[i].k = key THEN [k |-> key, v |-> value]
                                            ELSE d[i]]
    ELSE Append(d, [k |-> key, v |-> value])

(* d.pop(key, None) *)
DictPop(d, key) == SelectSeq(d, LAMBDA item : item.k # key)

(* mutant: the canonical key is read first *)
ResolveUserNameCanonicalFirst(normalized) ==
    PyOr(DictGet(normalized, "User_Name"), DictGet(normalized, "Use_name"))

(* user_name = normalized.get("Use_name") or normalized.get("User_Name") *)
ResolveUserName(normalized) ==
    PyOr(DictGet(normalized, "Use_name"), DictGet(normalized, "User_Name"))

(* mutant: the alias key is not popped *)
WriteNormalizedKeepAlias(normalized, user_name, dt) ==
    LET n1 == DictSet(normalized, "Date", PyStr(StrfDate(dt)))
        n2 == DictSet(n1, "Time", PyStr(StrfTime(dt)))
        n3 == DictSet(n2, "Weekday", PyStr(StrfWeekday(dt)))
        n4 == DictSet(n3, "ISODateTime", PyStr(IsoFormat(dt)))
    IN  DictSet(n4, "User_Name", user_name)

(* the assignments of _normalize_booking_payload after parsing *)
WriteNormalized(normalized, user_name, dt) ==
    LET n1 == DictSet(normalized, "Date", PyStr(StrfDate(dt)))
        n2 == DictSet(n1, "Time", PyStr(StrfTime(dt)))
        n3 == DictSet(n2, "Weekday", PyStr(StrfWeekday(dt)))
        n4 == DictSet(n3, "ISODateTime", PyStr(IsoFormat(dt)))
        n5 == DictSet(n4, "User_Name", user_name)
    IN  DictPop(n5, "Use_name")

(* mutant: the date/time is parsed before the name is checked *)
_normalize_booking_payloadParseFirst(p, clock) ==
    LET normalized == p
        user_name  == ResolveUserName(normalized)
    IN  IF ~HasKey(normalized, "Date")
        THEN Raise("KeyError", "Date", <<>>)
        ELSE IF ~HasKey(normalized, "Time")
        THEN Raise("KeyError", "Time", <<>>)
        ELSE LET r == _parse_to_stockholm(Item(normalized, "Date").s,
                                          Item(normalized, "Time").s, clock)
             IN  IF r.kind = "raise" THEN r
                 ELSE IF ~Truthy(user_name)
                 THEN Raise("ValueError", IdentityMsg, <<>>)
                 ELSE [kind |-> "normalized",
                       normalized |->
                           WriteNormalized(normalized, user_name, r.dt),
                       stockholm_dt |-> r.dt]

_normalize_booking_payload(p, clock) ==
    LET normalized == p
        user_name  == ResolveUserName(normalized)
    IN  IF ~Truthy(user_name) THEN Raise("ValueError", IdentityMsg, <<>>)
        ELSE IF ~HasKey(normalized, "Date")
        THEN Raise("KeyError", "Date", <<>>)
        ELSE IF ~HasKey(normalized, "Time")
        THEN Raise("KeyError", "Time", <<>>)
        ELSE LET r == _parse_to_stockholm(Item(normalized, "Date").s,
                                          Item(normalized, "Time").s, clock)
             IN  IF r.kind = "raise" THEN r
                 ELSE [kind |-> "normalized",
                       normalized |->
                           WriteNormalized(normalized, user_name, r.dt),
                       stockholm_dt |-> r.dt]

(* mutant: normalized is the caller's dict itself, not a copy *)
NormalizeCallAliased(p, clock) ==
    LET r == _normalize_booking_payload(p, clock)
    IN  [result |-> r,
         caller |-> IF r.kind = "normalized" THEN r.normalized ELSE p]

(* a call of _normalize_booking_payload: what it returns or raises, and    *)
(* the caller's mapping after it; normalized = dict(payload) is a copy, so *)
(* every assignment and the pop leave the caller's mapping as it was       *)
NormalizeCall(p, clock) ==
    [result |-> _normalize_booking_payload(p, clock), caller |-> p]

----------------------------------------------------------------------------
(* app.py: POST /book *)

Absent == [type |-> "absent", s |-> <<>>, n |-> 0]

(* the declared fields of BookRequest, and the keys a request body may use *)
(* for them (Use_name is read from its alias User_Name, or by name)        *)
BookRequestFields ==
    <<"Service", "Phone", "Stylist", "Date", "Use_name", "Time", "action">>
BookRequestKeys ==
    {"Service", "Phone", "Stylist", "Date", "Use_name", "User_Name", "Time",
     "action"}

BodyGet(body, key) == IF HasKey(body, key) THEN Item(body, key) ELSE Absent

(* the value BookRequest reads for a field; the customer name is looked up *)
(* under the alias first, then under the field name                        *)
FieldInput(body, field) ==
    IF field = "Use_name"
    THEN IF HasKey(body, "User_Name") THEN Item(body, "User_Name")
         ELSE BodyGet(body, "Use_name")
    ELSE BodyGet(body, field)

(* Service, Phone, Date, Time, action are str; Stylist and Use_name are    *)
(* str | None with default None                                            *)
FieldAccepted(field, value) ==
    IF field \in {"Stylist", "Use_name"}
    THEN value.type \in {"str", "none", "absent"}
    ELSE value.type = "str"

BodyAccepted(body) ==
    \A i \in DOMAIN BookRequestFields :
        FieldAccepted(BookRequestFields[i],
                      FieldInput(body, BookRequestFields[i]))

(* request.model_dump(exclude_none=True): the fields in declaration order  *)
(* under their names, then the extra items, None values left out           *)
ModelDump(body) ==
    LET fields == [i \in DOMAIN BookRequestFields |->
                      [k |-> BookRequestFields[i],
                       v |-> FieldInput(body, BookRequestFields[i])]]
        extras == SelectSeq(body, LAMBDA item : item.k \notin BookRequestKeys)
    IN  SelectSeq(fields \o extras,
                  LAMBDA item : item.v.type \notin {"none", "absent"})

(* the outbound client and what the webhook does with a POST *)
NoOutcome == [kind |-> "none", status |-> 0, json |-> FALSE, text |-> ""]
TransportError ==
    [kind |-> "error", status |-> 0, json |-> FALSE, text |-> "boom"]
WebhookResponse(status, json, text) ==
    [kind |-> "response", status |-> status, json |-> json, text |-> text]

(* response.json(), and the {"raw": response.text} fallback *)
NoBody == [kind |-> "none", text |-> ""]
JsonBody(text) == [kind |-> "json", text |-> text]
RawBody(text) == [kind |-> "raw", text |-> text]
WebhookBody(outcome) ==
    IF outcome.json THEN JsonBody(outcome.text) ELSE RawBody(outcome.text)

(* HTTP responses of the endpoint *)
NoDetail ==
    [kind |-> "none", keys |-> {}, missing |-> <<>>, empty |-> <<>>,
     msg |-> "", arg |-> <<>>, status |-> 0, body |-> NoBody]
NoAppointment ==
    [service |-> PyNone, stylist |-> PyNone, customer |-> PyNone,
     stockholm_iso |-> <<>>, weekday |-> <<>>]
NoResponse ==
    [code |-> 0, status |-> "", detail |-> NoDetail,
     appointment |-> NoAppointment, webhook_status |-> 0,
     webhook_response |-> NoBody]
HTTPException(code, detail) == [NoResponse EXCEPT !.code = code,
                                                  !.detail = detail]

(* the 400 detail of the field check *)
FieldsDetail(missing, empty) ==
    [NoDetail EXCEPT !.kind = "fields",
                     !.keys = (IF missing # <<>> THEN {"missing"} ELSE {})
                              \cup (IF empty # <<>> THEN {"empty"} ELSE {}),
                     !.missing = missing, !.empty = empty]

(* str(exc) of a ValueError *)
TextDetail(msg, arg) == [NoDetail EXCEPT !.kind = "text", !.msg = msg,
                                         !.arg = arg]

WebhookDetail(status, body) ==
    [NoDetail EXCEPT !.kind = "webhook",
                     !.keys = {"message", "status", "body"},
                     !.msg = "Booking service returned an error.",
                     !.status = status, !.body = body]

NoDt == [utc |-> 0, sec |-> 0, off |-> 0, zone |-> "none"]

(* mutant: only the fields BookRequest declares without default *)
BookRequiredDeclared == <<"Service", "Phone", "Date", "Time", "action">>

(* the required list /book validates against *)
BookRequired == DEFAULT_REQUIRED_FIELDS

(* mutant: the status test is > 400 *)
BookAnswerAbove400(outcome, normalized, dt) ==
    IF outcome.kind = "error"
    THEN HTTPException(502, TextDetail("Failed to reach booking service: ",
                                       <<>>))
    ELSE IF outcome.status > 400
    THEN HTTPException(502, WebhookDetail(outcome.status,
                                          WebhookBody(outcome)))
    ELSE [NoResponse EXCEPT
            !.code = 200,
            !.status = "success",
            !.appointment =
                [service |-> DictGet(normalized, "Service"),
                 stylist |-> DictGet(normalized, "Stylist"),
                 customer |-> DictGet(normalized, "User_Name"),
                 stockholm_iso |-> IsoFormat(dt),
                 weekday |-> StrfWeekday(dt)],
            !.webhook_status = outcome.status,
            !.webhook_response = WebhookBody(outcome)]

(* mutant: the customer is read under the popped key Use_name *)
BookAnswerCustomerAlias(outcome, normalized, dt) ==
    IF outcome.kind = "error"
    THEN HTTPException(502, TextDetail("Failed to reach booking service: ",
                                       <<>>))
    ELSE IF outcome.status >= 400
    THEN HTTPException(502, WebhookDetail(outcome.status,
                                          WebhookBody(outcome)))
    ELSE [NoResponse EXCEPT
            !.code = 200,
            !.status = "success",
            !.appointment =
                [service |-> DictGet(normalized, "Service"),
                 stylist |-> DictGet(normalized, "Stylist"),
                 customer |-> DictGet(normalized, "Use_name"),
                 stockholm_iso |-> IsoFormat(dt),
                 weekday |-> StrfWeekday(dt)],
            !.webhook_status = outcome.status,
            !.webhook_response = WebhookBody(outcome)]

(* what book_appointment answers once the with block is left *)
BookAnswer(outcome, normalized, dt) ==
    IF outcome.kind = "error"
    THEN HTTPException(502, TextDetail("Failed to reach booking service: ",
                                       <<>>))
    ELSE IF outcome.status >= 400
    THEN HTTPException(502, WebhookDetail(outcome.status,
                                          WebhookBody(outcome)))
    ELSE [NoResponse EXCEPT
            !.code = 200,
            !.status = "success",
            !.appointment =
                [service |-> DictGet(normalized, "Service"),
                 stylist |-> DictGet(normalized, "Stylist"),
                 customer |-> DictGet(normalized, "User_Name"),
                 stockholm_iso |-> IsoFormat(dt),
                 weekday |-> StrfWeekday(dt)],
            !.webhook_status = outcome.status,
            !.webhook_response = WebhookBody(outcome)]

Requests == 1..MaxRequests

IdleRequest ==
    [pc |-> "idle", body |-> <<>>, payload |-> <<>>, normalized |-> <<>>,
     dt |-> NoDt, client |-> 0, outcome |-> NoOutcome, steps |-> <<>>,
     response |-> NoResponse]

NewRequest(body) == [IdleRequest EXCEPT !.pc = "decode", !.body = body]

(* FastAPI decodes the body into BookRequest; a body it rejects is         *)
(* answered 422 by request_validation_exception_handler                    *)
DecodeRequest(r) ==
    /\ book[r].pc = "decode"
    /\ book' = [book EXCEPT ![r] =
          IF BodyAccepted(book[r].body)
          THEN [@ EXCEPT !.pc = "validate",
                         !.payload = ModelDump(book[r].body)]
          ELSE [@ EXCEPT !.pc = "done",
                         !.response = HTTPException(422, NoDetail)]]
    /\ UNCHANGED <<pc, args, result, renormalized, sharedvars,
                   posted, clients>>

(* mutant: only the missing list rejects the request *)
ValidateRequestMissingOnly(r) ==
    /\ book[r].pc = "validate"
    /\ LET v == validate_payload(book[r].payload, BookRequired, FALSE) IN
       book' = [book EXCEPT ![r] =
          IF v.missing # <<>>
          THEN [@ EXCEPT !.pc = "done",
                         !.steps = Append(@, "validate"),
                         !.response = HTTPException(400,
                                         FieldsDetail(v.missing, v.empty))]
          ELSE [@ EXCEPT !.pc = "normalize",
                         !.steps = Append(@, "validate")]]
    /\ UNCHANGED <<pc, args, result, renormalized, sharedvars,
                   posted, clients>>

(* validator.validate_payload(payload, DEFAULT_REQUIRED_FIELDS, False) *)
ValidateRequest(r) ==
    /\ book[r].pc = "validate"
    /\ LET v == validate_payload(book[r].payload, BookRequired, FALSE) IN
       book' = [book EXCEPT ![r] =
          IF v.missing # <<>> \/ v.empty # <<>>
          THEN [@ EXCEPT !.pc = "done",
                         !.steps = Append(@, "validate"),
                         !.response = HTTPException(400,
                                         FieldsDetail(v.missing, v.empty))]
          ELSE [@ EXCEPT !.pc = "normalize",
                         !.steps = Append(@, "validate")]]
    /\ UNCHANGED <<pc, args, result, renormalized, sharedvars,
                   posted, clients>>

(* _normalize_booking_payload(payload); ValueError becomes 400, any other  *)
(* exception is answered 500                                               *)
NormalizeRequest(r) ==
    /\ book[r].pc = "normalize"
    /\ LET call == NormalizeCall(book[r].payload, today) IN
       book' = [book EXCEPT ![r] =
          IF call.result.kind = "normalized"
          THEN [@ EXCEPT !.pc = "open",
                         !.steps = Append(@, "normalize"),
                         !.payload = call.caller,
                         !.normalized = call.result.normalized,
                         !.dt = call.result.stockholm_dt]
          ELSE [@ EXCEPT !.pc = "done",
                         !.steps = Append(@, "normalize"),
                         !.payload = call.caller,
                         !.response =
                            IF call.result.exc = "ValueError"
                            THEN HTTPException(400,
                                    TextDetail(call.result.msg,
                                               call.result.arg))
                            ELSE HTTPException(500, NoDetail)]]
    /\ UNCHANGED <<pc, args, result, renormalized, sharedvars,
                   posted, clients>>

(* async with httpx.AsyncClient(timeout=20) as client: a new client *)
OpenClient(r) ==
    /\ book[r].pc = "open"
    /\ clients' = Append(clients, [owner |-> r, state |-> "open"])
    /\ book' = [book EXCEPT ![r] = [@ EXCEPT !.pc = "post",
                                             !.client = Len(clients) + 1]]
    /\ UNCHANGED <<pc, args, result, renormalized, sharedvars,
                   posted>>

(* await client.post(WEBHOOK_URL, json=normalized_payload): the webhook    *)
(* answers, or the transport raises httpx.HTTPError                        *)
WebhookOutcomes ==
    {TransportError} \cup
    {WebhookResponse(st, b[1], b[2]) :
        st \in {200, 302, 400, 500},
        b \in {<<TRUE, "{\"status\": \"ok\"}">>, <<FALSE, "Accepted">>}}

PostToWebhook(r) ==
    /\ book[r].pc = "post"
    /\ \E outcome \in WebhookOutcomes :
          book' = [book EXCEPT ![r] = [@ EXCEPT !.pc = "close",
                                               !.steps = Append(@, "forward"),
                                               !.outcome = outcome]]
    /\ posted' = Append(posted, [r |-> r, client |-> book[r].client,
                                 json |-> book[r].normalized])
    /\ UNCHANGED <<pc, args, result, renormalized, sharedvars,
                   clients>>

(* mutant: the client is closed after a response only, not on exception *)
CloseClientOnSuccess(r) ==
    /\ book[r].pc = "close"
    /\ clients' = IF book[r].outcome.kind = "response"
                  THEN [clients EXCEPT ![book[r].client].state = "closed"]
                  ELSE clients
    /\ book' = [book EXCEPT ![r].pc = "respond"]
    /\ UNCHANGED <<pc, args, result, renormalized, sharedvars,
                   posted>>

(* leaving the with block closes the client, on return and on exception *)
CloseClient(r) ==
    /\ book[r].pc = "close"
    /\ clients' = [clients EXCEPT ![book[r].client].state = "closed"]
    /\ book' = [book EXCEPT ![r].pc = "respond"]
    /\ UNCHANGED <<pc, args, result, renormalized, sharedvars,
                   posted>>

(* the except clause, the status test and the BookResponse *)
Respond(r) ==
    /\ book[r].pc = "respond"
    /\ book' = [book EXCEPT ![r] =
          [@ EXCEPT !.pc = "done",
                    !.response = BookAnswer(book[r].outcome,
                                            book[r].normalized,
                                            book[r].dt)]]
    /\ UNCHANGED <<pc, args, result, renormalized, sharedvars,
                   posted, clients>>

NextBook ==
    \E r \in Requests :
        \/ DecodeRequest(r)
        \/ ValidateRequest(r)
        \/ NormalizeRequest(r)
        \/ OpenClient(r)
        \/ PostToWebhook(r)
        \/ CloseClient(r)
        \/ Respond(r)

----------------------------------------------------------------------------
(* Inputs of the validate_payload specification *)

ValidateNames == {"Phone", "Use_name", "User_Name", "action"}

ValidateValues ==
    {PyNone, PyStr(<<>>), PyStr(<<SP>>), PyStr(<<Ch(120)>>), PyInt(0),
     PyBool(FALSE), PyList(0), PyList(1), PyDict(0)}

SeqsUpTo(S, n) == UNION {[1..k -> S] : k \in 0..n}

NoDup(q) == \A i, j \in DOMAIN q : i # j => q[i] # q[j]

(* dicts over the given keys and values: items with distinct keys *)
Dicts(keys, values, n) ==
    {d \in SeqsUpTo([k : keys, v : values], n) :
        \A i, j \in DOMAIN d : i # j => d[i].k # d[j].k}

NoResult == [kind |-> "none"]

(* the date of the clock where no call reads it *)
Today0 == <<2024, 6, 1>>

InitValidate ==
    /\ pc = "call"
    /\ op = "validate_payload"
    /\ payload \in Dicts(ValidateNames, ValidateValues, MaxPayload)
    /\ required_fields \in SeqsUpTo(ValidateNames, MaxRequired)
    /\ allow_empty \in BOOLEAN
    /\ include_defaults = FALSE
    /\ override = None
    /\ require_from = None
    /\ today = Today0
    /\ result = NoResult
    /\ renormalized = NoResult
    /\ book = <<>>
    /\ posted = <<>>
    /\ clients = <<>>
    /\ file = NoFile
    /\ heap = <<>>
    /\ handlers = <<>>

CallValidatePayload ==
    /\ pc = "call"
    /\ op = "validate_payload"
    /\ result' = [kind |-> "lists"] @@
                 validate_payload(payload, required_fields, allow_empty)
    /\ pc' = "done"
    /\ UNCHANGED <<args, renormalized, bookvars, sharedvars>>

NextValidate == CallValidatePayload

SpecValidate == InitValidate /\ [][NextValidate]_vars

ValidateDone == pc = "done" /\ op = "validate_payload"

Disjoint(S, T) == S \cap T = {}

(* C1: for a duplicate-free required list, missing, empty and extras are   *)
(* pairwise disjoint, missing and empty hold only required names, each at  *)
(* most once.                                                              *)
C1_ListsDisjoint ==
    (ValidateDone /\ NoDup(required_fields)) =>
        LET M == SeqToSet(result.missing)
            E == SeqToSet(result.empty)
            X == SeqToSet(result.extras)
            R == SeqToSet(required_fields)
        IN  /\ Disjoint(M, E)
            /\ M \subseteq R /\ E \subseteq R
            /\ NoDup(result.missing) /\ NoDup(result.empty)
            /\ Disjoint(X, R) /\ Disjoint(X, M) /\ Disjoint(X, E)

C1_Witness ==
    /\ ValidateDone /\ NoDup(required_fields)
    /\ result.missing # <<>> /\ result.empty # <<>> /\ result.extras # <<>>

(* C2: missing is the required fields that are not keys of the payload, in *)
(* required_fields order, for either allow_empty; an empty payload gives   *)
(* missing = required_fields and no empty or extra names.                  *)
C2_MissingExact ==
    ValidateDone =>
        /\ result.missing =
               SelectSeq(required_fields, LAMBDA f : f \notin Keys(payload))
        /\ payload = <<>> =>
               /\ result.missing = required_fields
               /\ result.empty = <<>>
               /\ result.extras = <<>>

C2_Witness ==
    /\ ValidateDone /\ allow_empty
    /\ Len(required_fields) = 2 /\ Len(result.missing) = 1
    /\ result.missing[1] = required_fields[2]

(* The emptiness policy as the specification words it *)
PolicyEmpty(value) ==
    \/ value.type = "none"
    \/ value.type = "str" /\ \A i \in DOMAIN value.s : value.s[i] = SP
    \/ value.type \in {"list", "tuple", "set", "dict"} /\ value.n = 0

(* C3: with allow_empty false, empty is the present required fields whose  *)
(* value is empty under the policy, in required_fields order; with         *)
(* allow_empty true, empty is the empty list.                              *)
C3_EmptyExact ==
    ValidateDone =>
        IF allow_empty THEN result.empty = <<>>
        ELSE result.empty =
               SelectSeq(required_fields,
                         LAMBDA f : /\ f \in Keys(payload)
                                    /\ PolicyEmpty(Item(payload, f)))

C3_Witness ==
    /\ ValidateDone /\ ~allow_empty
    /\ Len(required_fields) = 2 /\ NoDup(required_fields)
    /\ result.empty = <<required_fields[1]>>
    /\ Item(payload, required_fields[1]) = PyStr(<<SP>>)
    /\ HasKey(payload, required_fields[2])
    /\ Item(payload, required_fields[2]) \in {PyInt(0), PyBool(FALSE)}

Reverse(q) == [i \in DOMAIN q |-> q[Len(q) + 1 - i]]

(* C4: extras is the set of payload keys that are not required names, in   *)
(* strictly ascending str order, whatever the order of the payload keys or *)
(* of required_fields and whatever allow_empty.                            *)
C4_ExtrasSortedDifference ==
    ValidateDone =>
        /\ SeqToSet(result.extras) = Keys(payload) \ SeqToSet(required_fields)
        /\ \A i, j \in DOMAIN result.extras :
               i < j => StrLess(result.extras[i], result.extras[j])
        /\ result.extras =
               validate_payload(Reverse(payload), Reverse(required_fields),
                                ~allow_empty).extras

C4_Witness ==
    /\ ValidateDone
    /\ Len(result.extras) = 2
    /\ payload[1].k = result.extras[2]
    /\ payload[2].k = result.extras[1]

----------------------------------------------------------------------------
(* Inputs of the required-field construction specification *)

BuildNames == {"Service", "action", "Custom"}

OptLists(S, n) == {None} \cup {Some(q) : q \in SeqsUpTo(S, n)}

(* the payload of test_validate_endpoint_success *)
FullPayload ==
    [i \in DOMAIN DEFAULT_REQUIRED_FIELDS |->
        [k |-> DEFAULT_REQUIRED_FIELDS[i], v |-> PyStr(<<Ch(120)>>)]]

EndpointPayloads ==
    {FullPayload} \cup
    Dicts({"Service", "Custom"}, {PyStr(<<>>), PyStr(<<Ch(120)>>)}, 1)

InitBuild ==
    /\ pc = "call"
    /\ op \in {"_build_required_fields", "load_required_fields", "validate"}
    /\ include_defaults \in BOOLEAN
    /\ override \in OptLists(BuildNames, MaxOverride)
    /\ require_from \in
          IF op = "load_required_fields"
          THEN {None} \cup {Some(q) : q \in SeqsUpTo(BuildNames, MaxFromFile)
                                              \ {<<>>}}
          ELSE {None}
    /\ payload \in IF op = "validate" THEN EndpointPayloads ELSE {<<>>}
    /\ allow_empty \in IF op = "validate" THEN BOOLEAN ELSE {FALSE}
    /\ required_fields = <<>>
    /\ today = Today0
    /\ result = NoResult
    /\ renormalized = NoResult
    /\ book = <<>>
    /\ posted = <<>>
    /\ clients = <<>>
    /\ file = NoFile
    /\ heap = <<>>
    /\ handlers = <<>>

CallBuildRequiredFields ==
    /\ pc = "call"
    /\ op = "_build_required_fields"
    /\ result' = [kind |-> "fields",
                  fields |-> _build_required_fields(override, include_defaults)]
    /\ pc' = "done"
    /\ UNCHANGED <<args, renormalized, bookvars, sharedvars>>

CallLoadRequiredFields ==
    /\ pc = "call"
    /\ op = "load_required_fields"
    /\ result' = [kind |-> "fields",
                  fields |-> load_required_fields(include_defaults,
                                                  require_from, override)]
    /\ pc' = "done"
    /\ UNCHANGED <<args, renormalized, bookvars, sharedvars>>

PostValidate ==
    /\ pc = "call"
    /\ op = "validate"
    /\ result' = validate(payload, override, include_defaults, allow_empty)
    /\ pc' = "done"
    /\ UNCHANGED <<args, renormalized, bookvars, sharedvars>>

NextBuild ==
    \/ CallBuildRequiredFields
    \/ CallLoadRequiredFields
    \/ PostValidate

SpecBuild == InitBuild /\ [][NextBuild]_vars

BuilderDone ==
    pc = "done" /\ op \in {"_build_required_fields", "load_required_fields"}

(* the names the caller supplied, in the order the builder reads them *)
Supplied == require_from.items \o override.items

(* C5: the builders return the default list (when included) followed by    *)
(* the supplied names, duplicates removed and first occurrences kept in    *)
(* order: no duplicates, every input name present, defaults first.         *)
C5_BuilderDedup ==
    BuilderDone =>
        LET concat == (IF include_defaults THEN DEFAULT_REQUIRED_FIELDS
                       ELSE <<>>) \o Supplied
            firsts == {i \in DOMAIN concat :
                          \A j \in 1..(i - 1) : concat[j] # concat[i]}
            out == result.fields
        IN  /\ NoDup(out)
            /\ SeqToSet(concat) \subseteq SeqToSet(out)
            /\ include_defaults =>
                   SubSeq(out, 1, Len(DEFAULT_REQUIRED_FIELDS))
                       = DEFAULT_REQUIRED_FIELDS
            /\ concat # <<>> =>
                   /\ Len(out) = Cardinality(firsts)
                   /\ \A i \in firsts :
                          out[Cardinality({j \in firsts : j <= i})] = concat[i]

C5_Witness ==
    /\ BuilderDone /\ include_defaults
    /\ override = Some(<<"Custom", "Service", "Custom">>)
    /\ result.fields = DEFAULT_REQUIRED_FIELDS \o <<"Custom">>

(* C6: the builder never returns an empty list; with defaults off and no   *)
(* names supplied it returns the default list, and POST /validate never    *)
(* answers 400.                                                            *)
C6_NeverEmpty ==
    /\ BuilderDone =>
          /\ result.fields # <<>>
          /\ (~include_defaults /\ Supplied = <<>>) =>
                 result.fields = DEFAULT_REQUIRED_FIELDS
    /\ (pc = "done" /\ op = "validate") =>
          /\ result.status = 200
          /\ (~include_defaults /\ Supplied = <<>>) =>
                 result.missing =
                    SelectSeq(DEFAULT_REQUIRED_FIELDS,
                              LAMBDA f : f \notin Keys(payload))

C6_Witness ==
    /\ pc = "done" /\ op = "validate"
    /\ ~include_defaults /\ override = Some(<<>>)
    /\ Keys(payload) = {"Service"}
    /\ result.status = 200 /\ ~result.valid
    /\ Len(result.missing) = 6

----------------------------------------------------------------------------
(* Inputs of the normalization specification *)

NameValues ==
    {Absent, PyNone, PyStr(<<>>), PyStr(<<SP>>), PyStr(<<Ch(74)>>),
     PyStr(<<Ch(65)>>)}

DateStrs ==
    {<<>>, <<SP>>, <<Ch(120)>>, <<DateLex(2024, 6, 1)>>,
     <<DateLex(2024, 1, 15)>>, <<DateLex(2024, 12, 31)>>,
     <<DateLex(2024, 13, 45)>>, <<Ch(120), SP, DateLex(2024, 3, 31)>>}

TimeStrs ==
    {<<>>, <<Ch(120)>>, <<TimeLex(12, 0, 0)>>, <<TimeLex(23, 30, 0)>>,
     <<TimeLex(0, 59, 45)>>, <<TimeLex(25, 0, 0)>>,
     <<TimeLex(12, 0, 0), OffLex(300)>>}

Clocks == {<<2024, 6, 1>>, <<2024, 12, 31>>}

(* a booking payload: the items whose value is not Absent, in this order *)
Booking(service, date, use_name, user_name, time) ==
    SelectSeq(<<[k |-> "Service", v |-> service],
                [k |-> "Date", v |-> date],
                [k |-> "Use_name", v |-> use_name],
                [k |-> "User_Name", v |-> user_name],
                [k |-> "Time", v |-> time]>>,
              LAMBDA item : item.v # Absent)

Bookings ==
    {Booking(PyStr(<<Ch(67)>>), d, n1, n2, t) :
        d \in {Absent} \cup {PyStr(x) : x \in DateStrs},
        n1 \in NameValues, n2 \in NameValues,
        t \in {Absent} \cup {PyStr(x) : x \in TimeStrs}}

InitNormalize ==
    /\ pc = "call"
    /\ op = "_normalize_booking_payload"
    /\ payload \in Bookings
    /\ today \in Clocks
    /\ required_fields = <<>>
    /\ allow_empty = FALSE
    /\ include_defaults = FALSE
    /\ override = None
    /\ require_from = None
    /\ result = NoResult
    /\ renormalized = NoResult
    /\ book = <<>>
    /\ posted = <<>>
    /\ clients = <<>>
    /\ file = NoFile
    /\ heap = <<>>
    /\ handlers = <<>>

CallNormalizeBookingPayload ==
    /\ pc = "call"
    /\ op = "_normalize_booking_payload"
    /\ result' = NormalizeCall(payload, today).result
    /\ payload' = NormalizeCall(payload, today).caller
    /\ pc' = "done"
    /\ UNCHANGED <<op, required_fields, allow_empty, include_defaults,
                   override, require_from, today, file, renormalized,
                   bookvars, sharedvars>>

(* the normalized payload is normalized once more *)
CallNormalizeAgain ==
    /\ pc = "done"
    /\ op = "_normalize_booking_payload"
    /\ result.kind = "normalized"
    /\ renormalized' = NormalizeCall(result.normalized, today).result
    /\ pc' = "again"
    /\ UNCHANGED <<args, result, bookvars, sharedvars>>

NextNormalize ==
    \/ CallNormalizeBookingPayload
    \/ CallNormalizeAgain

SpecNormalize == InitNormalize /\ [][NextNormalize]_vars

NormalizeDone ==
    pc \in {"done", "again"} /\ op = "_normalize_booking_payload"

(* a name key that is absent, null or holds an empty value *)
Blank(key) ==
    \/ key \notin Keys(payload)
    \/ Item(payload, key).type = "none"
    \/ Item(payload, key).type = "str" /\ Item(payload, key).s = <<>>

IsIdentityError(r) ==
    r.kind = "raise" /\ r.exc = "ValueError" /\ r.msg = IdentityMsg

(* C7: when neither Use_name nor User_Name holds a non-empty value, the    *)
(* call raises the ValueError naming both keys and returns no payload.     *)
C7_BlankNameRaises ==
    (NormalizeDone /\ Blank("Use_name") /\ Blank("User_Name")) =>
        IsIdentityError(result)

C7_Witness ==
    /\ NormalizeDone
    /\ HasKey(payload, "Use_name") /\ Item(payload, "Use_name") = PyStr(<<>>)
    /\ HasKey(payload, "User_Name") /\ Item(payload, "User_Name") = PyNone
    /\ HasKey(payload, "Date")
    /\ Item(payload, "Date") = PyStr(<<DateLex(2024, 6, 1)>>)
    /\ HasKey(payload, "Time")
    /\ Item(payload, "Time") = PyStr(<<TimeLex(12, 0, 0)>>)
    /\ IsIdentityError(result)

(* the non-blank values the input holds under the two name keys *)
GivenNames ==
    {Item(payload, key) : key \in {k \in {"Use_name", "User_Name"} : ~Blank(k)}}

(* C8: on success the output holds the resolved, non-empty name under      *)
(* User_Name and has no Use_name key.                                      *)
C8_CanonicalNameKey ==
    (NormalizeDone /\ result.kind = "normalized") =>
        /\ HasKey(result.normalized, "User_Name")
        /\ Item(result.normalized, "User_Name") \in GivenNames
        /\ ~HasKey(result.normalized, "Use_name")

C8_Witness ==
    /\ NormalizeDone /\ result.kind = "normalized"
    /\ HasKey(payload, "Use_name") /\ ~HasKey(payload, "User_Name")
    /\ Item(result.normalized, "User_Name") = Item(payload, "Use_name")

(* a name key that holds text other than whitespace *)
HoldsName(key) ==
    /\ key \in Keys(payload)
    /\ Item(payload, key).type = "str"
    /\ \E i \in DOMAIN Item(payload, key).s : Item(payload, key).s[i] # SP

BothNamesGiven ==
    /\ NormalizeDone /\ result.kind = "normalized"
    /\ HoldsName("Use_name") /\ HoldsName("User_Name")

(* C9 as stated: with both name keys non-empty the final name is the value *)
(* of User_Name.                                                           *)
C9_Original_PrefersUserName ==
    BothNamesGiven =>
        Item(result.normalized, "User_Name") = Item(payload, "User_Name")

(* C9 amended: with both name keys non-empty the final name, stored under  *)
(* User_Name, is the value the input held under Use_name.                  *)
C9_PrefersUseName ==
    BothNamesGiven =>
        Item(result.normalized, "User_Name") = Item(payload, "Use_name")

C9_Witness ==
    /\ BothNamesGiven
    /\ Item(payload, "Use_name") # Item(payload, "User_Name")
    /\ Item(result.normalized, "User_Name") = Item(payload, "Use_name")

(* the combined date/time text of the input, as the parser receives it *)
CombinedInput ==
    Strip(Item(payload, "Date").s \o <<SP>> \o Item(payload, "Time").s)

(* text with no date and no time in it, or with a field out of range *)
Unparsable(text) ==
    \/ \A i \in DOMAIN text : text[i][1] \notin {"date", "time"}
    \/ \E i \in DOMAIN text :
          /\ text[i][1] = "date"
          /\ \/ text[i][3] < 1 \/ text[i][3] > 12
             \/ text[i][4] < 1
             \/ text[i][4] > DaysInMonth(text[i][2], text[i][3])
    \/ \E i \in DOMAIN text :
          /\ text[i][1] = "time"
          /\ \/ text[i][2] > 23 \/ text[i][3] > 59 \/ text[i][4] > 59

NameGiven == ~(Blank("Use_name") /\ Blank("User_Name"))
DateTimeKeys == {"Date", "Time"} \subseteq Keys(payload)

(* C10: the name is checked before the date/time, so with both bad the     *)
(* identity error is raised; an empty combined date/time raises the        *)
(* Date-and-Time error and a parse failure raises an error holding the     *)
(* combined text; a payload is returned only when the name resolved and    *)
(* the date/time parsed, and then it holds every derived field.            *)
C10_GatesInOrder ==
    NormalizeDone =>
        /\ ~NameGiven => IsIdentityError(result)
        /\ (NameGiven /\ DateTimeKeys /\ CombinedInput = <<>>) =>
               result = Raise("ValueError", DateTimeRequiredMsg, <<>>)
        /\ (NameGiven /\ DateTimeKeys /\ CombinedInput # <<>>
               /\ Unparsable(CombinedInput)) =>
               result = Raise("ValueError", ParseMsg, CombinedInput)
        /\ result.kind = "normalized" =>
               /\ NameGiven /\ DateTimeKeys
               /\ CombinedInput # <<>> /\ ~Unparsable(CombinedInput)
               /\ {"Date", "Time", "Weekday", "ISODateTime", "User_Name"}
                      \subseteq Keys(result.normalized)

C10_Witness ==
    /\ NormalizeDone
    /\ ~NameGiven /\ DateTimeKeys
    /\ CombinedInput # <<>> /\ Unparsable(CombinedInput)
    /\ IsIdentityError(result)

Normalized == NormalizeDone /\ result.kind = "normalized"

(* the wall clock the parser reads from the input: the date and time       *)
(* written in it, the clock's date and midnight where one is left out      *)
InputDate ==
    IF Lexemes(CombinedInput, "date") # {}
    THEN FirstLex(CombinedInput, "date")
    ELSE DateLex(today[1], today[2], today[3])
InputTime ==
    IF Lexemes(CombinedInput, "time") # {}
    THEN FirstLex(CombinedInput, "time")
    ELSE TimeLex(0, 0, 0)
InputWall ==
    DaysFromCivil(InputDate[2], InputDate[3], InputDate[4]) * 1440
        + InputTime[2] * 60 + InputTime[3]
InputNaive == Lexemes(CombinedInput, "off") = {}

(* Stockholm's offset at an instant of 2024: summer time runs from         *)
(* 2024-03-31 01:00 UTC to 2024-10-27 01:00 UTC                            *)
Offset2024(utc) ==
    IF /\ utc >= DaysFromCivil(2024, 3, 31) * 1440 + 60
       /\ utc < DaysFromCivil(2024, 10, 27) * 1440 + 60
    THEN 120 ELSE 60

(* C11: an input without offset is taken as UTC and re-expressed in        *)
(* Europe/Stockholm, local time = input time + 02:00 in summer, + 01:00 in *)
(* winter (2024-06-01 12:00 gives 14:00+02:00, a Saturday); an input with  *)
(* an offset keeps its instant.                                            *)
C11_NaiveIsUtc ==
    Normalized =>
        LET dt == result.stockholm_dt IN
        /\ dt.zone = "Europe/Stockholm"
        /\ dt.off = Offset2024(dt.utc)
        /\ InputNaive =>
               /\ dt.utc = InputWall
               /\ LocalMinutes(dt) = InputWall + Offset2024(InputWall)
        /\ ~InputNaive =>
               dt.utc = InputWall - FirstLex(CombinedInput, "off")[2]
        /\ (InputNaive /\ InputDate = DateLex(2024, 6, 1)
               /\ InputTime = TimeLex(12, 0, 0)) =>
               /\ Item(result.normalized, "ISODateTime").s =
                      <<DateLex(2024, 6, 1), TLex, TimeLex(14, 0, 0),
                        OffLex(120)>>
               /\ Item(result.normalized, "Weekday").s =
                      <<NameLex("Saturday")>>

C11_Witness ==
    /\ Normalized /\ InputNaive
    /\ Item(payload, "Date").s = <<DateLex(2024, 6, 1)>>
    /\ Item(payload, "Time").s = <<TimeLex(12, 0, 0)>>
    /\ Item(result.normalized, "Time").s = <<TimeLex(14, 0, 0)>>

(* C12: normalizing the normalized payload again gives the instant of the  *)
(* first normalization, to the minute.                                     *)
C12_RoundTrip ==
    (pc = "again" /\ op = "_normalize_booking_payload"
        /\ renormalized.kind = "normalized") =>
        renormalized.stockholm_dt.utc = result.stockholm_dt.utc

(* the weekday of a date by Sakamoto's method *)
SakamotoName(y, m, d) ==
    LET t  == <<0, 3, 2, 5, 0, 3, 5, 1, 4, 6, 2, 4>>
        yy == IF m < 3 THEN y - 1 ELSE y
        w  == (yy + yy \div 4 - yy \div 100 + yy \div 400 + t[m] + d) % 7
    IN  <<"Sunday", "Monday", "Tuesday", "Wednesday", "Thursday", "Friday",
          "Saturday">>[w + 1]

(* C13: Date, Time, Weekday and ISODateTime of the output describe the     *)
(* local day and minute of the one Stockholm instant that is returned,     *)
(* also across midnight; Weekday is the weekday of that day.               *)
C13_FieldsOfOneInstant ==
    Normalized =>
        LET out == result.normalized
            dt  == result.stockholm_dt
            dl  == Item(out, "Date").s[1]
            tl  == Item(out, "Time").s[1]
            iso == Item(out, "ISODateTime").s
        IN  /\ iso[1] = dl
            /\ iso[3][2] = tl[2] /\ iso[3][3] = tl[3]
            /\ iso[4] = OffLex(dt.off)
            /\ DaysFromCivil(dl[2], dl[3], dl[4]) * 1440 + tl[2] * 60 + tl[3]
                   = dt.utc + dt.off
            /\ Item(out, "Weekday").s =
                   <<NameLex(SakamotoName(dl[2], dl[3], dl[4]))>>
            /\ Item(out, "Weekday").s = StrfWeekday(dt)

C13_Witness ==
    /\ Normalized /\ InputNaive
    /\ Item(payload, "Date").s = <<DateLex(2024, 12, 31)>>
    /\ Item(payload, "Time").s = <<TimeLex(23, 30, 0)>>
    /\ Item(result.normalized, "Date").s = <<DateLex(2025, 1, 1)>>
    /\ Item(result.normalized, "Weekday").s = <<NameLex("Wednesday")>>

(* C20: the call leaves the caller's mapping unchanged; the returned       *)
(* payload keeps every other input key with its value and its keys are the *)
(* input keys without Use_name, plus Weekday, ISODateTime and User_Name.   *)
C20_WorksOnCopy ==
    [][(op = "_normalize_booking_payload" /\ pc = "call" /\ pc' = "done") =>
          /\ payload' = payload
          /\ result'.kind = "normalized" =>
                /\ Keys(result'.normalized) =
                       (Keys(payload) \ {"Use_name"})
                          \cup {"Weekday", "ISODateTime", "User_Name"}
                /\ \A key \in Keys(payload) \
                          {"Date", "Time", "Weekday", "ISODateTime",
                           "User_Name", "Use_name"} :
                       Item(result'.normalized, key) = Item(payload, key)]_vars

C20_Witness ==
    /\ Normalized
    /\ {"Service", "Use_name", "User_Name"} \subseteq Keys(payload)
    /\ Item(payload, "Use_name") # Item(payload, "User_Name")
    /\ Item(payload, "Date").s # Item(result.normalized, "Date").s
    /\ Item(result.normalized, "Service") = Item(payload, "Service")

----------------------------------------------------------------------------
(* Inputs of the /book specifications *)

(* a request body: the items whose value is not Absent *)
Body(items) == SelectSeq(items, LAMBDA item : item.v # Absent)

NameItems ==
    {[k |-> "User_Name", v |-> PyStr(<<Ch(74)>>)],
     [k |-> "Use_name", v |-> PyStr(<<Ch(74)>>)],
     [k |-> "User_Name", v |-> Absent],
     [k |-> "User_Name", v |-> PyNone],
     [k |-> "User_Name", v |-> PyStr(<<>>)],
     [k |-> "Use_name", v |-> PyStr(<<SP>>)]}

BookBodies ==
    {Body(<<[k |-> "Service", v |-> service], [k |-> "Phone", v |-> phone],
            [k |-> "Stylist", v |-> stylist], [k |-> "Date", v |-> date],
            name, [k |-> "Time", v |-> time], [k |-> "action", v |-> action],
            [k |-> "Custom", v |-> extra]>>) :
        service \in {PyStr(<<Ch(67)>>), PyStr(<<>>)},
        phone \in {PyStr(<<Ch(49)>>), PyStr(<<SP>>), PyInt(1), Absent},
        stylist \in {PyStr(<<Ch(65)>>), PyStr(<<>>), PyNone, Absent},
        date \in {PyStr(<<DateLex(2024, 6, 1)>>), PyStr(<<Ch(120)>>),
                  PyStr(<<>>)},
        name \in NameItems,
        time \in {PyStr(<<TimeLex(12, 0, 0)>>), PyStr(<<TimeLex(25, 0, 0)>>),
                  PyStr(<<>>)},
        action \in {PyStr(<<Ch(98)>>), Absent},
        extra \in {PyStr(<<Ch(120)>>), Absent}}

(* the body of test_book_endpoint_success, and that of                     *)
(* test_book_endpoint_missing_field_returns_400                            *)
SuccessBody ==
    <<[k |-> "Service", v |-> PyStr(<<Ch(67)>>)],
      [k |-> "Phone", v |-> PyStr(<<Ch(49)>>)],
      [k |-> "Stylist", v |-> PyStr(<<Ch(65)>>)],
      [k |-> "Date", v |-> PyStr(<<DateLex(2024, 6, 1)>>)],
      [k |-> "Use_name", v |-> PyStr(<<Ch(74)>>)],
      [k |-> "Time", v |-> PyStr(<<TimeLex(13, 0, 0)>>)],
      [k |-> "action", v |-> PyStr(<<Ch(98)>>)]>>
MissingFieldBody == SelectSeq(SuccessBody, LAMBDA item : item.k # "Use_name")

InitBookCommon ==
    /\ pc = "serve"
    /\ op = "book_appointment"
    /\ payload = <<>>
    /\ required_fields = <<>>
    /\ allow_empty = FALSE
    /\ include_defaults = FALSE
    /\ override = None
    /\ require_from = None
    /\ result = NoResult
    /\ renormalized = NoResult
    /\ posted = <<>>
    /\ clients = <<>>
    /\ file = NoFile
    /\ heap = <<>>
    /\ handlers = <<>>

(* one request, any body *)
InitBook ==
    /\ InitBookCommon
    /\ today \in Clocks
    /\ \E body \in BookBodies :
          book = [r \in Requests |-> IF r = 1 THEN NewRequest(body)
                                              ELSE IdleRequest]

SpecBook == InitBook /\ [][NextBook]_vars

(* concurrent requests *)
InitBookConcurrent ==
    /\ InitBookCommon
    /\ today = Today0
    /\ book \in [Requests -> {NewRequest(SuccessBody),
                               NewRequest(MissingFieldBody)}]

SpecBookConcurrent == InitBookConcurrent /\ [][NextBook]_vars

----------------------------------------------------------------------------
(* validate_payload.py: parse_fields_file *)

(* the text of a run of characters given by their code points *)
Chars(codes) == [i \in DOMAIN codes |-> Ch(codes[i])]

(* the characters of JSON syntax: " , : [ ] { } 0, and the digits *)
JsonChar ==
    [quote |-> Ch(34), comma |-> Ch(44), colon |-> Ch(58),
     lbracket |-> Ch(91), rbracket |-> Ch(93),
     lbrace |-> Ch(123), rbrace |-> Ch(125), zero |-> Ch(48)]
Digits == {Ch(c) : c \in 48..57}

(* the JSON literals null, true, false, and str() of their Python values:  *)
(* None, True, False                                                       *)
JsonWord ==
    [null |-> Chars(<<110, 117, 108, 108>>),
     true |-> Chars(<<116, 114, 117, 101>>),
     false |-> Chars(<<102, 97, 108, 115, 101>>)]
PyWord ==
    [null |-> Chars(<<78, 111, 110, 101>>),
     true |-> Chars(<<84, 114, 117, 101>>),
     false |-> Chars(<<70, 97, 108, 115, 101>>)]
FieldsKey == Chars(<<102, 105, 101, 108, 100, 115>>)

(* a decoded JSON value: s is the text of a str or an int, items the       *)
(* elements of a list or the [k, v] members of a dict                      *)
JValue(kind, s, items) == [t |-> kind, s |-> s, items |-> items]

(* the result of a decoding step: a value and the index after it *)
Decoded(v, next) == [ok |-> TRUE, v |-> v, next |-> next]
JSONDecodeError == [ok |-> FALSE, v |-> JValue("null", <<>>, <<>>), next |-> 0]

RECURSIVE SkipWs(_, _)
SkipWs(t, i) ==
    IF i <= Len(t) /\ t[i] \in Whitespace THEN SkipWs(t, i + 1) ELSE i

(* the index of the quote closing a string literal, 0 when the literal is  *)
(* not closed or holds a control character                                 *)
RECURSIVE ScanString(_, _)
ScanString(t, i) ==
    IF i > Len(t) THEN 0
    ELSE IF t[i] = JsonChar.quote THEN i
    ELSE IF t[i] = NL THEN 0
    ELSE ScanString(t, i + 1)

RECURSIVE ScanDigits(_, _)
ScanDigits(t, i) ==
    IF i <= Len(t) /\ t[i] \in Digits THEN ScanDigits(t, i + 1) ELSE i

StartsWith(t, i, w) ==
    i + Len(w) - 1 <= Len(t) /\ SubSeq(t, i, i + Len(w) - 1) = w

(* json's scanner: one value starting at index i *)
RECURSIVE ParseValue(_, _)
RECURSIVE ParseElements(_, _, _)
RECURSIVE ParseMembers(_, _, _)
ParseValue(t, i) ==
    IF i > Len(t) THEN JSONDecodeError
    ELSE IF t[i] = JsonChar.quote
    THEN LET e == ScanString(t, i + 1) IN
         IF e = 0 THEN JSONDecodeError
         ELSE Decoded(JValue("str", SubSeq(t, i + 1, e - 1), <<>>), e + 1)
    ELSE IF t[i] = JsonChar.lbracket
    THEN LET j == SkipWs(t, i + 1) IN
         IF j <= Len(t) /\ t[j] = JsonChar.rbracket
         THEN Decoded(JValue("list", <<>>, <<>>), j + 1)
         ELSE ParseElements(t, j, <<>>)
    ELSE IF t[i] = JsonChar.lbrace
    THEN LET j == SkipWs(t, i + 1) IN
         IF j <= Len(t) /\ t[j] = JsonChar.rbrace
         THEN Decoded(JValue("dict", <<>>, <<>>), j + 1)
         ELSE ParseMembers(t, j, <<>>)
    ELSE IF t[i] = JsonChar.zero
    THEN Decoded(JValue("int", <<JsonChar.zero>>, <<>>), i + 1)
    ELSE IF t[i] \in Digits
    THEN LET e == ScanDigits(t, i) IN
         Decoded(JValue("int", SubSeq(t, i, e - 1), <<>>), e)
    ELSE IF StartsWith(t, i, JsonWord.null)
    THEN Decoded(JValue("null", <<>>, <<>>), i + Len(JsonWord.null))
    ELSE IF StartsWith(t, i, JsonWord.true)
    THEN Decoded(JValue("true", <<>>, <<>>), i + Len(JsonWord.true))
    ELSE IF StartsWith(t, i, JsonWord.false)
    THEN Decoded(JValue("false", <<>>, <<>>), i + Len(JsonWord.false))
    ELSE JSONDecodeError

(* the elements of an array, from the element at index i on *)
ParseElements(t, i, acc) ==
    LET r == ParseValue(t, i) IN
    IF ~r.ok THEN JSONDecodeError
    ELSE LET j == SkipWs(t, r.next) IN
         IF j > Len(t) THEN JSONDecodeError
         ELSE IF t[j] = JsonChar.comma
         THEN ParseElements(t, SkipWs(t, j + 1), Append(acc, r.v))
         ELSE IF t[j] = JsonChar.rbracket
         THEN Decoded(JValue("list", <<>>, Append(acc, r.v)), j + 1)
         ELSE JSONDecodeError

(* the members of an object, from the key at index i on; a repeated key    *)
(* keeps its place and takes the later value                               *)
ParseMembers(t, i, acc) ==
    IF i > Len(t) \/ t[i] # JsonChar.quote THEN JSONDecodeError
    ELSE LET key == ParseValue(t, i) IN
         IF ~key.ok THEN JSONDecodeError
         ELSE LET c == SkipWs(t, key.next) IN
              IF c > Len(t) \/ t[c] # JsonChar.colon THEN JSONDecodeError
              ELSE LET r == ParseValue(t, SkipWs(t, c + 1)) IN
                   IF ~r.ok THEN JSONDecodeError
                   ELSE LET j == SkipWs(t, r.next)
                            members == DictSet(acc, key.v.s, r.v)
                        IN  IF j > Len(t) THEN JSONDecodeError
                            ELSE IF t[j] = JsonChar.comma
                            THEN ParseMembers(t, SkipWs(t, j + 1), members)
                            ELSE IF t[j] = JsonChar.rbrace
                            THEN Decoded(JValue("dict", <<>>, members), j + 1)
                            ELSE JSONDecodeError

(* json.loads(text): one value and nothing but whitespace around it *)
json_loads(text) ==
    LET r == ParseValue(text, SkipWs(text, 1)) IN
    IF r.ok /\ SkipWs(text, r.next) = Len(text) + 1 THEN r
    ELSE JSONDecodeError

(* repr() and str() of a decoded value *)
RECURSIVE Repr(_)
RECURSIVE JoinRepr(_, _)
RECURSIVE JoinMembers(_, _)
Repr(v) ==
    CASE v.t = "str" -> <<Ch(39)>> \o v.s \o <<Ch(39)>>
      [] v.t = "int" -> v.s
      [] v.t = "null" -> PyWord.null
      [] v.t = "true" -> PyWord.true
      [] v.t = "false" -> PyWord.false
      [] v.t = "list" -> <<JsonChar.lbracket>> \o JoinRepr(v.items, 1)
                             \o <<JsonChar.rbracket>>
      [] v.t = "dict" -> <<JsonChar.lbrace>> \o JoinMembers(v.items, 1)
                             \o <<JsonChar.rbrace>>

JoinRepr(items, i) ==
    IF i > Len(items) THEN <<>>
    ELSE IF i = Len(items) THEN Repr(items[i])
    ELSE Repr(items[i]) \o <<JsonChar.comma, SP>> \o JoinRepr(items, i + 1)

JoinMembers(items, i) ==
    IF i > Len(items) THEN <<>>
    ELSE LET member == <<Ch(39)>> \o items[i].k \o <<Ch(39), JsonChar.colon, SP>>
                           \o Repr(items[i].v)
         IN  IF i = Len(items) THEN member
             ELSE member \o <<JsonChar.comma, SP>> \o JoinMembers(items, i + 1)

str(item) == IF item.t = "str" THEN item.s ELSE Repr(item)

(* text.splitlines(): the lines between the line breaks, from index i on,  *)
(* line being the characters of the line in progress                       *)
RECURSIVE splitlines(_, _, _)
splitlines(text, i, line) ==
    IF i > Len(text) THEN IF line = <<>> THEN <<>> ELSE <<line>>
    ELSE IF text[i] = NL THEN <<line>> \o splitlines(text, i + 1, <<>>)
    ELSE splitlines(text, i + 1, Append(line, text[i]))

SystemExit(msg) == [kind |-> "exit", msg |-> msg, fields |-> <<>>]
Returned(fields) == [kind |-> "fields", msg |-> "", fields |-> fields]

(* [line.strip() for line in lines] *)
StripAll(lines) == [i \in DOMAIN lines |-> Strip(lines[i])]

NonBlank(q) == SelectSeq(q, LAMBDA name : name # <<>>)

(* mutant: blank entries of the array are kept *)
parse_fields_fileKeepBlank(f) ==
    IF f.kind = "missing" THEN SystemExit("not found")
    ELSE IF f.kind = "unreadable" THEN SystemExit("could not read")
    ELSE LET text == Strip(f.text) IN
         IF text = <<>> THEN SystemExit("is empty")
         ELSE LET data == json_loads(text) IN
              IF ~data.ok
              THEN Returned(NonBlank(StripAll(splitlines(text, 1, <<>>))))
              ELSE LET isList == data.v.t = "list"
                       hasFields ==
                           /\ data.v.t = "dict"
                           /\ HasKey(data.v.items, FieldsKey)
                           /\ Item(data.v.items, FieldsKey).t = "list"
                   IN  IF ~isList /\ ~hasFields
                       THEN SystemExit("must be a JSON array or newline separated text")
                       ELSE LET values ==
                                    IF isList THEN data.v.items
                                    ELSE Item(data.v.items, FieldsKey).items
                                cleaned ==
                                    [i \in DOMAIN values |->
                                         Strip(str(values[i]))]
                            IN  IF cleaned = <<>>
                                THEN SystemExit("does not contain any usable field names")
                                ELSE Returned(cleaned)

(* parse_fields_file(path), f being what reading the file at path gives *)
parse_fields_file(f) ==
    IF f.kind = "missing" THEN SystemExit("not found")
    ELSE IF f.kind = "unreadable" THEN SystemExit("could not read")
    ELSE LET text == Strip(f.text) IN
         IF text = <<>> THEN SystemExit("is empty")
         ELSE LET data == json_loads(text) IN
              IF ~data.ok
              THEN Returned(NonBlank(StripAll(splitlines(text, 1, <<>>))))
              ELSE LET isList == data.v.t = "list"
                       hasFields ==
                           /\ data.v.t = "dict"
                           /\ HasKey(data.v.items, FieldsKey)
                           /\ Item(data.v.items, FieldsKey).t = "list"
                   IN  IF ~isList /\ ~hasFields
                       THEN SystemExit("must be a JSON array or newline separated text")
                       ELSE LET values ==
                                    IF isList THEN data.v.items
                                    ELSE Item(data.v.items, FieldsKey).items
                                cleaned ==
                                    NonBlank([i \in DOMAIN values |->
                                                  Strip(str(values[i]))])
                            IN  IF cleaned = <<>>
                                THEN SystemExit("does not contain any usable field names")
                                ELSE Returned(cleaned)

CallParseFieldsFile ==
    /\ pc = "call"
    /\ op = "parse_fields_file"
    /\ result' = parse_fields_file(file)
    /\ pc' = "done"
    /\ UNCHANGED <<args, renormalized, bookvars, sharedvars>>

NextParse == CallParseFieldsFile

----------------------------------------------------------------------------
(* Concurrent request handlers calling the required-field builder,         *)
(* validate_payload and _normalize_booking_payload on shared objects       *)

Handlers == 1..MaxHandlers

(* the module-level list validator.DEFAULT_REQUIRED_FIELDS, and the lists  *)
(* and dicts handler h holds or allocates                                  *)
DefaultList == <<0, "DEFAULT_REQUIRED_FIELDS">>
Objects ==
    {DefaultList}
        \cup (Handlers \X {"payload", "fields", "ordered", "normalized"})

(* the inputs of one request *)
HandlerInput(endpoint, p, required, incl, allow) ==
    [endpoint |-> endpoint, payload |-> p, required_fields |-> required,
     include_defaults |-> incl, allow_empty |-> allow]

(* a handler at its first step: /validate starts in the builder, /book in  *)
(* validate_payload with the module-level list as required_fields          *)
NewHandler(in) ==
    [pc |-> IF in.endpoint = "validate" THEN "build" ELSE "loop",
     input |-> in,
     fields |-> DefaultList,
     required |-> DefaultList,
     allow_empty |-> IF in.endpoint = "validate" THEN in.allow_empty
                     ELSE FALSE,
     i |-> 1,
     missing |-> <<>>,
     empty |-> <<>>,
     extras |-> <<>>,
     code |-> 0,
     normalized |-> NoResult]

(* mutant: fields is bound to the module-level list instead of a new list *)
BuildNewListAliased(h) ==
    /\ handlers[h].pc = "build"
    /\ handlers' = [handlers EXCEPT ![h].pc = "extend_defaults",
                                    ![h].fields = DefaultList]
    /\ UNCHANGED <<pc, args, result, renormalized, bookvars, heap>>

(* fields: List[str] = [] *)
BuildNewList(h) ==
    /\ handlers[h].pc = "build"
    /\ heap' = [heap EXCEPT ![<<h, "fields">>] = <<>>]
    /\ handlers' = [handlers EXCEPT ![h].pc = "extend_defaults",
                                    ![h].fields = <<h, "fields">>]
    /\ UNCHANGED <<pc, args, result, renormalized, bookvars>>

(* if include_defaults: fields.extend(validator.DEFAULT_REQUIRED_FIELDS) *)
ExtendDefaults(h) ==
    /\ handlers[h].pc = "extend_defaults"
    /\ heap' = IF handlers[h].input.include_defaults
               THEN [heap EXCEPT ![handlers[h].fields] =
                                     heap[handlers[h].fields]
                                         \o heap[DefaultList]]
               ELSE heap
    /\ handlers' = [handlers EXCEPT ![h].pc = "extend_required"]
    /\ UNCHANGED <<pc, args, result, renormalized, bookvars>>

(* if required_fields: fields.extend(required_fields) *)
ExtendRequired(h) ==
    /\ handlers[h].pc = "extend_required"
    /\ LET required == handlers[h].input.required_fields IN
       heap' = IF required.some /\ required.items # <<>>
               THEN [heap EXCEPT ![handlers[h].fields] =
                                     heap[handlers[h].fields]
                                         \o required.items]
               ELSE heap
    /\ handlers' = [handlers EXCEPT ![h].pc = "dedupe"]
    /\ UNCHANGED <<pc, args, result, renormalized, bookvars>>

(* the de-duplication loop and the return of _build_required_fields; the   *)
(* endpoint answers 400 when the list is empty                             *)
BuildReturn(h) ==
    /\ handlers[h].pc = "dedupe"
    /\ LET ordered == BuildOrdered(heap[handlers[h].fields], {}, <<>>)
           returned == IF ordered = <<>> THEN heap[DefaultList] ELSE ordered
       IN  /\ heap' = [heap EXCEPT ![<<h, "ordered">>] = returned]
           /\ handlers' = [handlers EXCEPT
                  ![h].required = <<h, "ordered">>,
                  ![h].pc = IF returned = <<>> THEN "done" ELSE "loop",
                  ![h].code = IF returned = <<>> THEN 400 ELSE 0]
    /\ UNCHANGED <<pc, args, result, renormalized, bookvars>>

(* one iteration of the for loop of validate_payload *)
ValidateField(h) ==
    /\ handlers[h].pc = "loop"
    /\ LET q == handlers[h]
           required == heap[q.required]
           p == heap[<<h, "payload">>]
       IN  handlers' = [handlers EXCEPT ![h] =
              IF q.i > Len(required) THEN [q EXCEPT !.pc = "extras"]
              ELSE IF ~HasKey(p, required[q.i])
              THEN [q EXCEPT !.i = q.i + 1,
                             !.missing = Append(q.missing, required[q.i])]
              ELSE IF q.allow_empty
              THEN [q EXCEPT !.i = q.i + 1]
              ELSE IF is_empty(Item(p, required[q.i]))
              THEN [q EXCEPT !.i = q.i + 1,
                             !.empty = Append(q.empty, required[q.i])]
              ELSE [q EXCEPT !.i = q.i + 1]]
    /\ UNCHANGED <<pc, args, result, renormalized, bookvars, heap>>

(* extras and the return of validate_payload; /validate answers, /book     *)
(* answers 400 or goes on to normalize                                     *)
ValidateReturn(h) ==
    /\ handlers[h].pc = "extras"
    /\ LET q == handlers[h]
           extras == Sorted(Keys(heap[<<h, "payload">>])
                                \ SeqToSet(heap[q.required]))
       IN  handlers' = [handlers EXCEPT ![h] =
              IF q.input.endpoint = "validate"
              THEN [q EXCEPT !.extras = extras, !.pc = "done",
                             !.code = 200]
              ELSE IF q.missing # <<>> \/ q.empty # <<>>
              THEN [q EXCEPT !.extras = extras, !.pc = "done",
                             !.code = 400]
              ELSE [q EXCEPT !.extras = extras, !.pc = "copy"]]
    /\ UNCHANGED <<pc, args, result, renormalized, bookvars, heap>>

(* normalized = dict(payload) *)
NormalizeCopy(h) ==
    /\ handlers[h].pc = "copy"
    /\ heap' = [heap EXCEPT ![<<h, "normalized">>] = heap[<<h, "payload">>]]
    /\ handlers' = [handlers EXCEPT ![h].pc = "write"]
    /\ UNCHANGED <<pc, args, result, renormalized, bookvars>>

(* the rest of _normalize_booking_payload, on the dict normalized *)
NormalizeWrite(h) ==
    /\ handlers[h].pc = "write"
    /\ LET r == _normalize_booking_payload(heap[<<h, "normalized">>], today)
       IN  /\ heap' = IF r.kind = "normalized"
                      THEN [heap EXCEPT ![<<h, "normalized">>] = r.normalized]
                      ELSE heap
           /\ handlers' = [handlers EXCEPT
                  ![h].normalized = r,
                  ![h].pc = "done",
                  ![h].code = IF r.kind = "normalized" THEN 200 ELSE 400]
    /\ UNCHANGED <<pc, args, result, renormalized, bookvars>>

NextHandlers ==
    \E h \in Handlers :
        \/ BuildNewList(h)
        \/ ExtendDefaults(h)
        \/ ExtendRequired(h)
        \/ BuildReturn(h)
        \/ ValidateField(h)
        \/ ValidateReturn(h)
        \/ NormalizeCopy(h)
        \/ NormalizeWrite(h)

(* the requests the handlers serve *)
HandlerInputs ==
    {HandlerInput("validate", ModelDump(SuccessBody), None, TRUE, FALSE),
     HandlerInput("validate", ModelDump(SuccessBody),
                  Some(<<"Custom">>), FALSE, TRUE),
     HandlerInput("validate", ModelDump(MissingFieldBody),
                  Some(<<"Phone", "Custom">>), TRUE, FALSE),
     HandlerInput("validate", ModelDump(MissingFieldBody), None, FALSE,
                  FALSE),
     HandlerInput("book", ModelDump(SuccessBody), None, TRUE, FALSE),
     HandlerInput("book", ModelDump(MissingFieldBody), None, TRUE, FALSE)}

InitHandlers ==
    /\ pc = "serve"
    /\ op = "handlers"
    /\ payload = <<>>
    /\ required_fields = <<>>
    /\ allow_empty = FALSE
    /\ include_defaults = FALSE
    /\ override = None
    /\ require_from = None
    /\ today = Today0
    /\ result = NoResult
    /\ renormalized = NoResult
    /\ book = <<>>
    /\ posted = <<>>
    /\ clients = <<>>
    /\ file = NoFile
    /\ \E ins \in [Handlers -> HandlerInputs] :
          /\ handlers = [h \in Handlers |-> NewHandler(ins[h])]
          /\ heap = [o \in Objects |->
                        IF o = DefaultList THEN DEFAULT_REQUIRED_FIELDS
                        ELSE IF o[2] = "payload" THEN ins[o[1]].payload
                        ELSE <<>>]

SpecHandlers == InitHandlers /\ [][NextHandlers]_vars

Served == {r \in Requests : book[r].pc = "done"}

(* the default fields a decoded payload lacks, and those it holds empty *)
AbsentFields(p) ==
    SelectSeq(DEFAULT_REQUIRED_FIELDS, LAMBDA f : f \notin Keys(p))
EmptyFields(p) ==
    SelectSeq(DEFAULT_REQUIRED_FIELDS,
              LAMBDA f : f \in Keys(p) /\ PolicyEmpty(Item(p, f)))

(* C14: a decoded /book request with a default field absent or empty is    *)
(* answered 400, the detail listing the absent names under missing and the *)
(* empty ones under empty, each key only when its list is non-empty; so is *)
(* a request without Stylist or without the customer name.                 *)
C14_FieldsRejected ==
    \A r \in Served :
        LET q == book[r] IN
        (q.steps # <<>> /\ (AbsentFields(q.payload) # <<>>
                              \/ EmptyFields(q.payload) # <<>>)) =>
            /\ q.response.code = 400
            /\ q.response.detail.kind = "fields"
            /\ q.response.detail.missing = AbsentFields(q.payload)
            /\ q.response.detail.empty = EmptyFields(q.payload)
            /\ "missing" \in q.response.detail.keys
                   <=> AbsentFields(q.payload) # <<>>
            /\ "empty" \in q.response.detail.keys
                   <=> EmptyFields(q.payload) # <<>>
            /\ BodyGet(q.body, "Stylist").type \in {"absent", "none"}
                   => "Stylist" \in SeqToSet(q.response.detail.missing)
            /\ (BodyGet(q.body, "User_Name").type \in {"absent", "none"}
                  /\ BodyGet(q.body, "Use_name").type \in {"absent", "none"})
                   => "Use_name" \in SeqToSet(q.response.detail.missing)

C14_Witness ==
    \E r \in Served :
        /\ ~HasKey(book[r].body, "Stylist")
        /\ book[r].response.code = 400
        /\ book[r].response.detail.keys = {"missing", "empty"}
        /\ book[r].response.detail.missing = <<"Stylist">>
        /\ book[r].response.detail.empty = <<"Use_name">>

(* C15: a transport error or a webhook status of 400 or above is answered  *)
(* 502, never success; for a webhook status the detail holds the webhook's *)
(* status and body.                                                        *)
C15_UpstreamFailure ==
    \A r \in Served :
        LET q == book[r] IN
        /\ q.outcome.kind = "error" =>
               q.response.code = 502 /\ q.response.status # "success"
        /\ (q.outcome.kind = "response" /\ q.outcome.status >= 400) =>
               /\ q.response.code = 502 /\ q.response.status # "success"
               /\ {"status", "body"} \subseteq q.response.detail.keys
               /\ q.response.detail.status = q.outcome.status
               /\ q.response.detail.body.text = q.outcome.text
               /\ q.response.detail.body.kind =
                      IF q.outcome.json THEN "json" ELSE "raw"

C15_Witness ==
    \E r \in Served :
        /\ book[r].outcome = WebhookResponse(400, FALSE, "Accepted")
        /\ book[r].response.code = 502
        /\ book[r].response.detail.status = 400

(* C16: /book answers success only when the webhook's status is 2xx. *)
C16_SuccessOnly2xx ==
    \A r \in Served :
        book[r].response.status = "success" =>
            book[r].outcome.status \in 200..299

(* C17: a successful answer relays the webhook's status and its decoded    *)
(* body ({"raw": text} when it is not JSON); customer is the resolved      *)
(* name, stockholm_iso and weekday are ISODateTime and Weekday of the      *)
(* payload that was posted.                                                *)
C17_RelaysWebhook ==
    \A r \in Served :
        LET q == book[r] IN
        q.response.status = "success" =>
            /\ q.response.code = 200
            /\ q.response.webhook_status = q.outcome.status
            /\ q.response.webhook_response.text = q.outcome.text
            /\ q.response.webhook_response.kind =
                   IF q.outcome.json THEN "json" ELSE "raw"
            /\ q.response.appointment.customer = FieldInput(q.body, "Use_name")
            /\ \E i \in DOMAIN posted :
                   /\ posted[i].r = r
                   /\ q.response.appointment.customer =
                          Item(posted[i].json, "User_Name")
                   /\ q.response.appointment.stockholm_iso =
                          Item(posted[i].json, "ISODateTime").s
                   /\ q.response.appointment.weekday =
                          Item(posted[i].json, "Weekday").s

C17_Witness ==
    \E r \in Served :
        /\ book[r].response.status = "success"
        /\ HasKey(book[r].body, "User_Name")
        /\ book[r].response.webhook_response = RawBody("Accepted")
        /\ book[r].response.webhook_status = 200
        /\ book[r].response.appointment.customer = PyStr(<<Ch(74)>>)

IsPrefix(a, b) == Len(a) <= Len(b) /\ SubSeq(b, 1, Len(a)) = a

PostsOf(r) == {i \in DOMAIN posted : posted[i].r = r}

(* C18: the steps run in the order validate, normalize, forward; what is   *)
(* posted is the normalized payload of a request whose default fields are  *)
(* all present and non-empty; the webhook is posted to at most once per    *)
(* request, and never for a request answered 400.                          *)
C18_ValidateNormalizeForward ==
    /\ \A r \in Requests :
          /\ IsPrefix(book[r].steps, <<"validate", "normalize", "forward">>)
          /\ Cardinality(PostsOf(r)) <= 1
          /\ (book[r].pc = "done" /\ book[r].response.code \in {400, 422})
                 => PostsOf(r) = {}
    /\ \A i \in DOMAIN posted :
          LET q == book[posted[i].r]
              json == posted[i].json
          IN  /\ q.steps = <<"validate", "normalize", "forward">>
              /\ AbsentFields(q.payload) = <<>>
              /\ EmptyFields(q.payload) = <<>>
              /\ json = q.normalized
              /\ {"Date", "Time", "Weekday", "ISODateTime", "User_Name"}
                     \subseteq Keys(json)
              /\ "Use_name" \notin Keys(json)
              /\ Len(Item(json, "Date").s) = 1
              /\ Item(json, "Date").s[1][1] = "date"
              /\ Len(Item(json, "Time").s) = 1
              /\ Item(json, "Time").s[1][1] = "time"
              /\ Item(json, "Time").s[1][4] = 0

C18_Witness ==
    \E r \in Served :
        /\ book[r].outcome = TransportError
        /\ book[r].response.code = 502
        /\ Cardinality(PostsOf(r)) = 1
        /\ HasKey(book[r].body, "Custom")

(* C19: a request that forwards opens a client of its own and that client  *)
(* is closed before the response is produced, on every path; no client is  *)
(* open once its request is done and none serves two requests.             *)
C19_ClientPerRequest ==
    /\ \A r \in Requests :
          LET q == book[r] IN
          /\ q.client # 0 => clients[q.client].owner = r
          /\ q.pc \in {"post", "close"} =>
                 q.client # 0 /\ clients[q.client].state = "open"
          /\ (q.pc \in {"respond", "done"} /\ q.client # 0) =>
                 clients[q.client].state = "closed"
          /\ PostsOf(r) # {} => q.client # 0
    /\ \A r1, r2 \in Requests :
          (r1 # r2 /\ book[r1].client # 0) =>
              book[r1].client # book[r2].client
    /\ \A i \in DOMAIN posted :
          clients[posted[i].client].owner = posted[i].r
    /\ \A c \in DOMAIN clients :
          clients[c].state = "open" =>
              book[clients[c].owner].pc \in {"post", "close"}

C19_Witness ==
    /\ book[1].pc = "done" /\ book[2].pc = "done"
    /\ book[1].outcome = TransportError
    /\ book[2].response.status = "success"
    /\ book[1].client = 2 /\ book[2].client = 1
    /\ \A c \in DOMAIN clients : clients[c].state = "closed"

----------------------------------------------------------------------------
(* Inputs of the parse_fields_file specification *)

(* an entry of a JSON array: its JSON text and str() of its decoded value *)
Entry(json, text) == [json |-> json, str |-> text]
Lit(content) == Entry(<<JsonChar.quote>> \o content \o <<JsonChar.quote>>, content)

(* "A", " B ", "", " ", 10, null, ["A",2], {"A":1} *)
FileEntries ==
    {Lit(<<Ch(65)>>), Lit(<<SP, Ch(66), SP>>), Lit(<<>>), Lit(<<SP>>),
     Entry(<<Ch(49), JsonChar.zero>>, <<Ch(49), JsonChar.zero>>),
     Entry(JsonWord.null, PyWord.null),
     Entry(<<JsonChar.lbracket, JsonChar.quote, Ch(65), JsonChar.quote, JsonChar.comma, Ch(50), JsonChar.rbracket>>,
           <<JsonChar.lbracket, Ch(39), Ch(65), Ch(39), JsonChar.comma, SP, Ch(50), JsonChar.rbracket>>),
     Entry(<<JsonChar.lbrace, JsonChar.quote, Ch(65), JsonChar.quote, JsonChar.colon, Ch(49), JsonChar.rbrace>>,
           <<JsonChar.lbrace, Ch(39), Ch(65), Ch(39), JsonChar.colon, SP, Ch(49), JsonChar.rbrace>>)}

(* JSON documents that are neither an array nor an object with a fields    *)
(* array: "A", 10, null, {"A":1}, and "fields" bound to them               *)
FileScalars ==
    {e \in FileEntries : e.json[1] # JsonChar.lbracket /\ Strip(e.str) # <<>>}

(* lines of a text file: A, " B ", "", " ", A B, [A, "A", *)
FileLines ==
    {<<Ch(65)>>, <<SP, Ch(66), SP>>, <<>>, <<SP>>, <<Ch(65), SP, Ch(66)>>,
     <<JsonChar.lbracket, Ch(65)>>, <<JsonChar.quote, Ch(65), JsonChar.quote, JsonChar.comma>>}

RECURSIVE Join(_, _)
Join(parts, sep) ==
    IF parts = <<>> THEN <<>>
    ELSE IF Len(parts) = 1 THEN parts[1]
    ELSE parts[1] \o sep \o Join(Tail(parts), sep)

RenderArray(entries, sep) ==
    <<JsonChar.lbracket>> \o Join([i \in DOMAIN entries |-> entries[i].json], sep)
                 \o <<JsonChar.rbracket>>

RenderObject(key, json) ==
    <<JsonChar.lbrace, JsonChar.quote>> \o key \o <<JsonChar.quote, JsonChar.colon, SP>> \o json \o <<JsonChar.rbrace>>

Separators == {<<JsonChar.comma>>, <<JsonChar.comma, NL, SP>>}

(* whitespace written before and after the content *)
Pads == {[before |-> <<>>, after |-> <<>>],
         [before |-> <<SP, NL>>, after |-> <<NL, NL, SP>>]}

Pad(text, pad) == pad.before \o text \o pad.after

(* a readable file: its text, the form it was written in and the entries   *)
(* or lines written                                                        *)
TextFile(text, form, entries) ==
    [kind |-> "text", text |-> text, form |-> form, entries |-> entries]

Files ==
    {[NoFile EXCEPT !.kind = kind] : kind \in {"missing", "unreadable"}}
    \cup {TextFile(Pad(RenderArray(es, sep), pad), "array", es) :
             es \in SeqsUpTo(FileEntries, MaxFromFile),
             sep \in Separators, pad \in Pads}
    \cup {TextFile(Pad(RenderObject(FieldsKey, RenderArray(es, sep)), pad),
                   "fields_object", es) :
             es \in SeqsUpTo(FileEntries, MaxFromFile),
             sep \in Separators, pad \in Pads}
    \cup {TextFile(Pad(RenderObject(Chars(<<110, 97, 109, 101, 115>>),
                                    RenderArray(es, <<JsonChar.comma>>)), pad),
                   "other", es) :
             es \in SeqsUpTo(FileEntries, MaxFromFile), pad \in Pads}
    \cup {TextFile(Pad(e.json, pad), "other", <<e>>) :
             e \in FileScalars, pad \in Pads}
    \cup {TextFile(Pad(RenderObject(FieldsKey, e.json), pad), "other", <<e>>) :
             e \in FileScalars, pad \in Pads}
    \cup {TextFile(Pad(Join(ls, <<NL>>), pad), "lines",
                   [i \in DOMAIN ls |-> Entry(ls[i], ls[i])]) :
             ls \in SeqsUpTo(FileLines, MaxFromFile), pad \in Pads}
    \cup {TextFile(Pad(t, pad), "lines", <<Entry(t, t)>>) :
             t \in {<<JsonChar.lbracket>> \o Join([i \in DOMAIN es |-> es[i].json],
                                         <<JsonChar.comma>>) \o tail :
                       es \in SeqsUpTo(FileEntries, MaxFromFile) \ {<<>>},
                       tail \in {<<JsonChar.comma, JsonChar.rbracket>>, <<>>}},
             pad \in Pads}

InitParse ==
    /\ pc = "call"
    /\ op = "parse_fields_file"
    /\ payload = <<>>
    /\ required_fields = <<>>
    /\ allow_empty = FALSE
    /\ include_defaults = FALSE
    /\ override = None
    /\ require_from = None
    /\ today = Today0
    /\ result = NoResult
    /\ renormalized = NoResult
    /\ book = <<>>
    /\ posted = <<>>
    /\ clients = <<>>
    /\ heap = <<>>
    /\ handlers = <<>>
    /\ file \in Files

SpecParse == InitParse /\ [][NextParse]_vars

ParseDone == pc = "done" /\ op = "parse_fields_file"

(* the names a list of entries or lines stands for: each stripped, the     *)
(* blank ones dropped                                                      *)
ExpectedNames(entries) ==
    SelectSeq([i \in DOMAIN entries |-> Strip(entries[i].str)],
              LAMBDA name : name # <<>>)

(* C22: parse_fields_file exits with an error or returns a non-empty list  *)
(* of non-blank names: an empty or whitespace-only file exits with the     *)
(* "is empty" error; a JSON array, or an object with a fields array, gives *)
(* its entries as stripped strings in order without the blank ones, and    *)
(* exits when none is left; any other JSON value exits; text that is not   *)
(* JSON gives its non-blank lines, stripped, in order.                     *)
C22_ParseFieldsFile ==
    ParseDone =>
        /\ result.kind \in {"exit", "fields"}
        /\ result.kind = "fields" =>
               /\ result.fields # <<>>
               /\ \A i \in DOMAIN result.fields :
                      /\ result.fields[i] # <<>>
                      /\ Strip(result.fields[i]) = result.fields[i]
        /\ file.kind # "text" => result.kind = "exit"
        /\ (file.kind = "text" /\ Strip(file.text) = <<>>) =>
               result = SystemExit("is empty")
        /\ (file.kind = "text" /\ Strip(file.text) # <<>>) =>
               /\ file.form \in {"array", "fields_object"} =>
                      result = IF ExpectedNames(file.entries) = <<>>
                               THEN SystemExit("does not contain any usable field names")
                               ELSE Returned(ExpectedNames(file.entries))
               /\ file.form = "other" =>
                      result = SystemExit("must be a JSON array or newline separated text")
               /\ file.form = "lines" =>
                      result = Returned(ExpectedNames(file.entries))

C22_Witness ==
    /\ ParseDone
    /\ file.form = "array"
    /\ file.entries = <<Lit(<<>>), Lit(<<SP, Ch(66), SP>>)>>
    /\ NL \in SeqToSet(file.text)
    /\ result = Returned(<<(<<Ch(66)>>)>>)

(* the required list of handler h when it runs alone *)
AloneRequired(h) ==
    IF handlers[h].input.endpoint = "validate"
    THEN _build_required_fields(handlers[h].input.required_fields,
                                handlers[h].input.include_defaults)
    ELSE DEFAULT_REQUIRED_FIELDS

(* C21: under every interleaving of the handlers' steps the module-level   *)
(* default list keeps its seven names, no handler's payload is changed,    *)
(* and the builder, validate_payload and _normalize_booking_payload return *)
(* to each handler what they return for its inputs alone.                  *)
C21_HandlersIsolated ==
    /\ heap[DefaultList] = DEFAULT_REQUIRED_FIELDS
    /\ \A h \in Handlers :
          LET q == handlers[h]
              alone == validate_payload(q.input.payload, AloneRequired(h),
                                        q.allow_empty)
          IN  /\ heap[<<h, "payload">>] = q.input.payload
              /\ q.required = <<h, "ordered">> =>
                     heap[q.required] = AloneRequired(h)
              /\ q.pc \in {"copy", "write"} \/ (q.pc = "done" /\ q.code # 0)
                     => /\ q.missing = alone.missing
                        /\ q.empty = alone.empty
                        /\ q.extras = alone.extras
              /\ q.normalized # NoResult =>
                     /\ q.normalized =
                            _normalize_booking_payload(q.input.payload, today)
                     /\ q.normalized.kind = "normalized" =>
                            heap[<<h, "normalized">>] = q.normalized.normalized

C21_Witness ==
    /\ handlers[1].input.endpoint = "book"
    /\ handlers[1].pc = "loop"
    /\ handlers[1].i = 4
    /\ handlers[2].input.endpoint = "validate"
    /\ handlers[2].pc = "dedupe"
    /\ Len(heap[<<2, "fields">>]) = 9

====
